---- MODULE Spec2Model ----
(***************************************************************************)
(* Model of the multi-repo-git-commands extension.                         *)
(*                                                                         *)
(*   - the command orchestrator of extension.ts (runGitOperation and the   *)
(*     commands built on it, runResetWorkspace),                           *)
(*   - the fan-out searches of multiRepoViewProvider.ts (_searchBranch,    *)
(*     _searchCommit),                                                     *)
(*   - the repository discovery of repoDiscovery.ts (discoverGitRepos).    *)
(*                                                                         *)
(* Each part has its own specification (SpecOrch, SpecConc, SpecSearch,    *)
(* SpecDisc); the variables of the other parts stay at their initial       *)
(* value.                                                                  *)
(***************************************************************************)
EXTENDS Integers, Sequences, FiniteSets, TLC

\* ------------------------------------------------------------------ bounds
\* Number of repositories of the workspace.
NRepos == 2
\* Number of repositories the searches fan out over.
NSearchRepos == 3
\* Largest value of the maxDepth setting.
MaxDepthSetting == 2
\* Largest number of commits a git log of the model returns.
MaxCommits == 1
\* Largest number of /-separated segments of a branch label that is
\* normalized.
MaxSegments == 4

VARIABLES
    found,      \* orchestrator: the repositories getAllRepos() discovers
    runs,       \* orchestrator: one record per command invocation
    output,     \* orchestrator: the lines of the shared output channel
    gitCalls,   \* orchestrator: history of the git commands of the actions
    branchData, \* search: the branches of each repository (a profile name)
    calls,      \* search: one record per _searchBranch / _searchCommit call
    webview,    \* search: the messages posted to the webview, in order
    tree,       \* discovery: the directory tree below the scanned root
    policy,     \* discovery: maxDepth of the 1st and 2nd scan, excludeFolders
    scan,       \* discovery: the running discoverGitRepos call and the results
    ws,         \* discovery: the workspace and the running getAllGitRepos call
    norm,       \* search: a branch label and what the prefix strippings return
    picker,     \* search: the running _pickBranchFilter call
    host,       \* orchestrator: the commands registered with the extension host
    view        \* view: the branch each repository is on, the running
                \* _checkoutBranch and updateRepoState calls

orchVars == <<found, runs, output, gitCalls, host, view>>
searchVars == <<branchData, calls, webview, norm, picker>>
discVars == <<tree, policy, scan, ws>>
vars == <<found, runs, output, gitCalls, branchData, calls, webview,
          tree, policy, scan, ws, norm, picker, host, view>>

\* ------------------------------------------------------------ orchestrator
Repos == 1 .. NRepos

\* The invocations (command handler activations) the model follows.
Runs == {"r1", "r2"}

\* The commands modelled: runStatus, runDiscard, runCustom, runResetWorkspace.
Ops == {"Status", "Discard", "Custom", "Reset"}

\* PRESETS of pickOrPromptGitArgs, by the git arguments they carry.
PRESETS == {"status", "fetch", "resetHard"}

\* getAllRepos(): the discovered repositories sorted by name (repository r
\* is named so that names sort as the numbers do).
RECURSIVE SortedSeq(_)
SortedSeq(S) ==
    IF S = {} THEN <<>>
    ELSE LET m == CHOOSE x \in S : \A y \in S : x <= y
         IN  <<m>> \o SortedSeq(S \ {m})

\* Mutation of getAllRepos: the paths in the order discovery pushed them,
\* the directory listed last first.
getAllReposAsDiscovered ==
    LET sorted == SortedSeq(found)
    IN  [n \in 1 .. Len(sorted) |-> sorted[Len(sorted) + 1 - n]]

getAllRepos == SortedSeq(found)

\* path.basename(repo.path) of repository r.
RepoName(r) ==
    CASE r = 1 -> <<"a", "p", "i">>
      [] r = 2 -> <<"l", "i", "b">>
      [] OTHER -> <<"w", "e", "b">>

\* The git commands the action of a command issues, in order, each awaited
\* before the next is started.
Steps(op, args) ==
    CASE op = "Status"  -> <<"status">>
      [] op = "Discard" -> <<"resetHard", "clean">>
      [] op = "Custom"  -> <<args>>
      [] op = "Reset"   -> <<"resetHard", "clean", "fetch", "pull">>
      [] op = "Checkout" -> <<"checkout">>
      [] OTHER          -> <<>>

\* The commands activate() registers (all with the prefix
\* multi-repo-git-commands.).
CommandIds ==
    {"runGitAll", "runCustomGitAll", "statusAll", "fetchAll", "pullAll",
     "pushAll", "commitAll", "stageAll", "unstageAll", "discardAll",
     "stashAll", "popStashAll", "checkoutAll", "createBranchAll",
     "deleteBranchAll", "createTagAll", "deleteTagAll", "createRemoteAll",
     "deleteRemoteAll", "resetWorkspace", "customRepo", "openRepo"}

\* The commands that lead to each of the handlers modelled.
CommandsOf(op) ==
    CASE op = "Status"  -> {"statusAll"}
      [] op = "Discard" -> {"discardAll"}
      [] op = "Custom"  -> {"runGitAll", "runCustomGitAll", "customRepo"}
      [] op = "Reset"   -> {"resetWorkspace"}
      [] op = "Checkout" -> {"checkoutAll"}
      [] OTHER          -> {}

\* The extension host before and after activate().
NotActivated == [activated |-> FALSE, commands |-> {}]
Activated == [activated |-> TRUE, commands |-> CommandIds]

\* Commands that destroy uncommitted work.
Destructive == {"resetHard", "clean"}

\* ---------------------------------------------------- discovery: the data
\* A directory is the sequence of names leading to it from the scanned
\* root; the root is <<>>. "nm" stands for node_modules.
Paths ==
    {<<>>, <<"a">>, <<"b">>, <<"a", "c">>, <<"a", "nm">>, <<"a", "c", "d">>}

\* What an entry is: a non-directory, a directory, a directory holding a
\* .git entry, a directory that cannot be listed.
Kinds == {"file", "dir", "repo", "locked"}

Parent(p) == SubSeq(p, 1, Len(p) - 1)

\* The trees of the model: the root is a directory, and only directories
\* have entries below them.
Trees ==
    {t \in [Paths -> Kinds] :
        /\ t[<<>>] # "file"
        /\ \A p \in Paths \ {<<>>} : t[Parent(p)] = "file" => t[p] = "file"}

\* The excludeFolders settings followed.
ExcludeSets == {{}, {"nm"}}

IdleScan == [no |-> 0, stack |-> <<>>, repos |-> {}, popped |-> <<>>,
             results |-> <<{}, {}>>]

IdleWs == [pc |-> "idle", folders |-> <<>>, scanNested |-> TRUE, idx |-> 1,
           allRepos |-> <<>>, checks |-> 0, result |-> <<>>]

DiscIdle ==
    /\ tree = [p \in Paths |-> "dir"]
    /\ policy = [maxDepth |-> <<0, 0>>, excludeFolders |-> {}]
    /\ scan = IdleScan
    /\ ws = IdleWs

\* ------------------------------------------------------- search: the data
\* Branch labels are sequences of characters, so that includes() and
\* split('/') are computed as the code computes them.
Slash == "/"
ORIGIN == <<"o", "r", "i", "g", "i", "n">>
UPSTREAM == <<"u", "p", "s", "t", "r", "e", "a", "m">>
B_main == <<"m", "a", "i", "n">>
B_dev == <<"d", "e", "v">>
B_release == <<"r", "e", "l", "e", "a", "s", "e", "/", "1", ".", "0">>
R_origin_main == ORIGIN \o <<Slash>> \o B_main
R_origin_dev == ORIGIN \o <<Slash>> \o B_dev
R_origin_release == ORIGIN \o <<Slash>> \o B_release
R_upstream_main == UPSTREAM \o <<Slash>> \o B_main
R_fork_main == <<"f", "o", "r", "k", "/">> \o B_main

\* Branch names with characters that HTML or JavaScript treat specially.
N_quote == <<"i", "t", "'", "s">>
N_dquote == <<"a", "\"", "b">>
N_amp == <<"a", "&", "a", "m", "p", ";", "b">>

\* The updateRepoState calls followed.
Updates == {"u1", "u2"}

IdleCheckout ==
    [pc |-> "idle", repo |-> 0, reported |-> <<>>, branchName |-> <<>>,
     failed |-> FALSE]

IdleUpdate == [pc |-> "idle", repo |-> 0, current |-> <<>>]

\* No checkout and no state update running; no repository looked at.
IdleView ==
    [head |-> <<>>, hooked |-> FALSE, co |-> IdleCheckout,
     up |-> [u \in Updates |-> IdleUpdate]]

\* The repositories getAllGitRepos() can return to a search.
SRepos == 1 .. NSearchRepos

\* What git reports for a repository, by profile: branchLocal().all,
\* branchLocal().current and branch(['-r']).all.
Profiles == {"A", "B", "C"}

LocalBranches(p) ==
    CASE p = "A" -> <<B_main, B_release>>
      [] p = "B" -> <<B_dev>>
      [] OTHER   -> <<B_main>>

RemoteBranches(p) ==
    CASE p = "A" -> <<R_origin_main, R_origin_dev>>
      [] p = "B" -> <<>>
      [] OTHER   -> <<R_upstream_main, R_fork_main, R_origin_release>>

CurrentBranch(p) == LocalBranches(p)[1]

\* The workspace of the model: repository 1 is like A, 2 like B, 3 like C,
\* and so on in turn.
ProfileOf(r) ==
    CASE r % 3 = 1 -> "A"
      [] r % 3 = 2 -> "B"
      [] OTHER     -> "C"

\* The texts typed in the branch search box.
Queries == {<<>>, B_main, <<"r", "e", "l", "e", "a", "s", "e">>, ORIGIN}

\* The calls (webview messages searchBranch / searchCommit) followed.
Calls == {"s1", "s2"}

NoFilters ==
    [title |-> "", author |-> "", dateFrom |-> "", dateTo |-> "", branch |-> ""]

\* The commit search forms followed: each field empty or filled.
FilterSets ==
    [title : {"", "fix"}, author : {"", "ann"}, dateFrom : {"", "2024-01-01"},
     dateTo : {"", "2024-12-31"}, branch : {"", "dev"}]

IdleTask == [st |-> "none", matches |-> <<>>, plan |-> <<>>, total |-> 0]

IdleCall ==
    [pc |-> "idle", kind |-> "none", query |-> <<>>, filters |-> NoFilters,
     repos |-> {}, task |-> [r \in SRepos |-> IdleTask], results |-> <<>>]

\* The labels whose normalization is followed: up to MaxSegments segments,
\* each a remote-tracking qualifier or an ordinary name.
REMOTES == <<"r", "e", "m", "o", "t", "e", "s">>
Segments ==
    {ORIGIN, UPSTREAM, REMOTES, <<"f", "o", "r", "k">>,
     <<"f", "e", "a", "t", "u", "r", "e">>, <<"x">>}

RECURSIVE LabelsOf(_)
LabelsOf(n) ==
    IF n = 1 THEN Segments
    ELSE {seg \o <<Slash>> \o l : seg \in Segments, l \in LabelsOf(n - 1)}

NormLabels == UNION {LabelsOf(n) : n \in 1 .. MaxSegments}

IdlePicker ==
    [pc |-> "idle", repos |-> {}, task |-> [r \in SRepos |-> "none"],
     allBranches |-> {}, sortedBranches |-> <<>>]

IdleNorm == [pc |-> "idle", label |-> <<>>, search |-> <<>>, picker |-> <<>>,
             search2 |-> <<>>, picker2 |-> <<>>]

SearchIdle ==
    /\ branchData = [r \in SRepos |-> ProfileOf(r)]
    /\ calls = [c \in Calls |-> IdleCall]
    /\ webview = <<>>
    /\ picker = IdlePicker
    /\ norm = IdleNorm

IdleRun ==
    [op |-> "none", pc |-> "idle", explicit |-> FALSE, list |-> <<>>,
     idx |-> 1, step |-> 0, args |-> "none", cancel |-> FALSE,
     confirmed |-> FALSE, warned |-> FALSE, cleared |-> FALSE,
     visited |-> <<>>, errs |-> {}, cancelAt |-> -1, cancelStep |-> 0]

OrchInit ==
    /\ found \in SUBSET Repos
    /\ runs = [i \in Runs |-> IdleRun]
    /\ output = <<>>
    /\ gitCalls = {}
    /\ host = Activated
    /\ view = IdleView
    /\ SearchIdle
    /\ DiscIdle

\* The explicit repository lists a caller may pass as `repos` (the
\* singleRepoWrapper passes one repository; the parameter accepts any list).
ExplicitLists ==
    {<<r>> : r \in Repos} \cup
    {<<r, q>> : <<r, q>> \in {p \in Repos \X Repos : p[1] # p[2]}}

CurRepo(i) == runs[i].list[runs[i].idx]

\* operationName of runGitOperation, as each command passes it.
OpName(i) ==
    IF runs[i].op = "Custom" THEN <<"git", runs[i].args>>
    ELSE IF runs[i].op = "Checkout" THEN <<"Checkout", runs[i].args>>
    ELSE <<runs[i].op>>

Line(i, t, text) == [t |-> t, repo |-> CurRepo(i), text |-> text, by |-> i]

\* `=== ${repoName} » ${operationName} ===`
Header(i) == Line(i, "header", OpName(i))

\* What the text of a line names: the header names the repository and the
\* operation, `=== ${repoName} » Done ===` the repository, the other
\* lines neither.
LineLabels(l) ==
    CASE l.t = "header" -> {"repo", "operation"}
      [] l.t = "done"   -> {"repo"}
      [] OTHER          -> {}

\* Mutation of StartLines: the action writes a header of its own.
StartLinesWithHeader(i) ==
    IF runs[i].op = "Reset"
    THEN <<Header(i), Line(i, "plain", <<"Discarding changes...">>)>>
    ELSE <<Header(i)>>

\* Lines the action writes between the header and its first await.
StartLines(i) ==
    IF runs[i].op = "Reset" THEN <<Line(i, "plain", <<"Discarding changes...">>)>>
    ELSE <<>>

\* Lines the action writes when its step-th git command has returned.
OkLines(i) ==
    LET op == runs[i].op
        k  == runs[i].step
    IN  CASE op = "Status" -> <<Line(i, "plain", <<"On branch">>)>>
          [] op = "Discard" /\ k = 2 ->
                <<Line(i, "plain", <<"Discarded all changes.">>)>>
          [] op = "Custom" ->
                <<Line(i, "plain", <<"raw">>), Line(i, "done", <<"Done">>)>>
          [] op = "Reset" /\ k = 2 ->
                <<Line(i, "plain", <<"Changes discarded">>),
                  Line(i, "plain", <<"Fetching...">>)>>
          [] op = "Reset" /\ k = 3 ->
                <<Line(i, "plain", <<"Fetch completed">>),
                  Line(i, "plain", <<"Pulling...">>)>>
          [] op = "Reset" /\ k = 4 ->
                <<Line(i, "plain", <<"Pull completed">>),
                  Line(i, "done", <<"Done">>)>>
          [] op = "Checkout" ->
                <<Line(i, "plain", <<"Checked out", runs[i].args>>)>>
          [] OTHER -> <<>>

\* `Error: ${e.message || e}`
ErrorLine(i) == Line(i, "error", <<"Error">>)

\* One entry of the history of git commands: the k-th command of the action
\* of invocation i on its current repository was started / returned / threw.
Call(i, k, st) ==
    [by |-> i, repo |-> CurRepo(i), k |-> k,
     cmd |-> Steps(runs[i].op, runs[i].args)[k], st |-> st]

\* Which commands ask for a modal confirmation before anything else.
NeedsConfirm(op) == op \in {"Discard", "Reset"}

\* A command handler is invoked (command palette, webview button, SCM menu).
Invoke(i, op, repos) ==
    /\ runs[i].pc = "idle"
    /\ CommandsOf(op) \cap host.commands # {}
    /\ runs' = [runs EXCEPT ![i] =
                  [@ EXCEPT !.op = op,
                            !.explicit = (repos # <<>>),
                            !.list = repos,
                            !.pc = IF NeedsConfirm(op) THEN "confirm"
                                   ELSE IF op = "Custom" THEN "pick"
                                   ELSE "start"]]
    /\ UNCHANGED <<found, output, gitCalls, searchVars, discVars, host, view>>

\* showWarningMessage(..., {modal: true}, "Discard" | "Reset") returns.
Confirm(i, yes) ==
    /\ runs[i].pc = "confirm"
    /\ runs' = [runs EXCEPT ![i] =
                  [@ EXCEPT !.confirmed = yes,
                            !.pc = IF yes THEN "start" ELSE "done"]]
    /\ UNCHANGED <<found, output, gitCalls, searchVars, discVars, host, view>>

\* pickOrPromptGitArgs() returns the arguments, or undefined.
Pick(i, choice) ==
    /\ runs[i].pc = "pick"
    /\ runs' = [runs EXCEPT ![i] =
                  [@ EXCEPT !.args = choice,
                            !.pc = IF choice = "none" THEN "done" ELSE "start"]]
    /\ UNCHANGED <<found, output, gitCalls, searchVars, discVars, host, view>>

\* Mutation of Start: output.clear() comes before the test of the list.
StartClearsFirst(i) ==
    /\ runs[i].pc = "start"
    /\ LET repoList == IF runs[i].explicit THEN runs[i].list ELSE getAllRepos
       IN  IF Len(repoList) = 0
           THEN runs' = [runs EXCEPT ![i] =
                           [@ EXCEPT !.warned = TRUE, !.cleared = TRUE,
                                     !.pc = "done"]]
           ELSE runs' = [runs EXCEPT ![i] =
                           [@ EXCEPT !.list = repoList, !.idx = 1,
                                     !.cleared = TRUE, !.pc = "check"]]
    /\ output' = <<>>
    /\ UNCHANGED <<found, gitCalls, searchVars, discVars, host, view>>

\* The head of runGitOperation / runResetWorkspace: resolve the list, warn
\* and return when it is empty, else clear the channel and enter the loop.
Start(i) ==
    /\ runs[i].pc = "start"
    /\ LET repoList == IF runs[i].explicit THEN runs[i].list ELSE getAllRepos
       IN  IF Len(repoList) = 0
           THEN /\ runs' = [runs EXCEPT ![i] =
                              [@ EXCEPT !.warned = TRUE, !.pc = "done"]]
                /\ UNCHANGED output
           ELSE /\ runs' = [runs EXCEPT ![i] =
                              [@ EXCEPT !.list = repoList, !.idx = 1,
                                        !.cleared = TRUE, !.pc = "check"]]
                /\ output' = <<>>
    /\ UNCHANGED <<found, gitCalls, searchVars, discVars, host, view>>

\* Mutation of CancelBreaks: the token is never looked at.
CancelIgnored(i) == FALSE

\* `if (token.isCancellationRequested) break;`
CancelBreaks(i) == runs[i].cancel

\* The top of one loop iteration, up to the first await of the action.
Check(i) ==
    /\ runs[i].pc = "check"
    /\ IF runs[i].idx > Len(runs[i].list) \/ CancelBreaks(i)
       THEN /\ runs' = [runs EXCEPT ![i] = [@ EXCEPT !.pc = "done"]]
            /\ UNCHANGED <<output, gitCalls>>
       ELSE /\ runs' = [runs EXCEPT ![i] =
                          [@ EXCEPT !.step = 1, !.pc = "action",
                                    !.visited = Append(@, CurRepo(i))]]
            /\ output' = Append(output, Header(i)) \o StartLines(i)
            /\ gitCalls' = gitCalls \cup {Call(i, 1, "started")}
    /\ UNCHANGED <<found, searchVars, discVars, host, view>>

\* Mutation of AfterThrow: there is no try/catch around the action, the
\* rejection leaves the loop and the invocation.
ThrowPropagates(i) == [runs[i] EXCEPT !.pc = "thrown"]

\* Mutation of AfterThrow: each git command has a catch of its own, the
\* action goes on with its next command.
ThrowSkipsOneStep(i) ==
    IF runs[i].step < Len(Steps(runs[i].op, runs[i].args))
    THEN [runs[i] EXCEPT !.step = @ + 1, !.errs = @ \cup {CurRepo(i)}]
    ELSE [runs[i] EXCEPT !.pc = "check", !.idx = @ + 1, !.step = 0,
                         !.errs = @ \cup {CurRepo(i)}]

\* The run after the awaited git command of repository CurRepo(i) threw:
\* the catch block logs the error and the loop goes on.
AfterThrow(i) ==
    [runs[i] EXCEPT !.pc = "check", !.idx = @ + 1, !.step = 0,
                    !.errs = @ \cup {CurRepo(i)}]

\* Mutation of AfterReturn: the last git command of the action is not
\* waited for, the loop goes on when the one before it has returned.
AfterReturnLeavesEarly(i) ==
    IF runs[i].step < Len(Steps(runs[i].op, runs[i].args)) - 1
    THEN [runs[i] EXCEPT !.step = @ + 1]
    ELSE [runs[i] EXCEPT !.pc = "check", !.idx = @ + 1, !.step = 0]

\* Mutation of AfterReturn: the action looks at the token between its git
\* commands and gives up when cancellation was requested.
AfterReturnChecksToken(i) ==
    IF runs[i].step < Len(Steps(runs[i].op, runs[i].args)) /\ ~runs[i].cancel
    THEN [runs[i] EXCEPT !.step = @ + 1]
    ELSE [runs[i] EXCEPT !.pc = "check", !.idx = @ + 1, !.step = 0]

\* The run after the awaited git command returned.
AfterReturn(i) ==
    IF runs[i].step < Len(Steps(runs[i].op, runs[i].args))
    THEN [runs[i] EXCEPT !.step = @ + 1]
    ELSE [runs[i] EXCEPT !.pc = "check", !.idx = @ + 1, !.step = 0]

\* The git command in flight settles.
GitReturn(i, ok) ==
    /\ runs[i].pc = "action"
    /\ LET after == IF ok THEN AfterReturn(i) ELSE AfterThrow(i)
       IN  /\ runs' = [runs EXCEPT ![i] = after]
           /\ output' =
                IF ok THEN output \o OkLines(i)
                ELSE IF after.errs # runs[i].errs
                     THEN Append(output, ErrorLine(i))
                     ELSE output
           /\ gitCalls' = gitCalls
                \cup {Call(i, runs[i].step, IF ok THEN "ok" ELSE "failed")}
                \cup (IF after.pc = "action"
                      THEN {Call(i, after.step, "started")} ELSE {})
    /\ UNCHANGED <<found, searchVars, discVars, host, view>>

\* The operator presses Cancel on the progress notification.
Cancel(i) ==
    /\ runs[i].pc \in {"check", "action"}
    /\ ~runs[i].cancel
    /\ runs' = [runs EXCEPT ![i] =
                  [@ EXCEPT !.cancel = TRUE, !.cancelAt = Len(runs[i].visited),
                            !.cancelStep = IF runs[i].pc = "action"
                                           THEN runs[i].step ELSE 0]]
    /\ UNCHANGED <<found, output, gitCalls, searchVars, discVars, host, view>>

\* One invocation at a time, every command, explicit or discovered list.
OrchNext ==
    \/ \E op \in Ops, repos \in ExplicitLists \cup {<<>>} : Invoke("r1", op, repos)
    \/ \E yes \in BOOLEAN : Confirm("r1", yes)
    \/ \E choice \in PRESETS \cup {"none"} : Pick("r1", choice)
    \/ Start("r1")
    \/ Check("r1")
    \/ \E ok \in BOOLEAN : GitReturn("r1", ok)
    \/ Cancel("r1")

SpecOrch == OrchInit /\ [][OrchNext]_vars

\* ------------------------------------------------------------- activate
\* The vscode.git extension as activate() finds it: not installed, not yet
\* active, active, or active with an API that throws.
GitExtensions == {"none", "inactive", "active", "throws"}

\* Mutation of AfterGitHook: without the try/catch an exception of the
\* git API leaves activate() before any command is registered.
GitHookThrowPropagates(gitExtension) ==
    IF gitExtension = "throws"
    THEN [activated |-> TRUE, commands |-> {}]
    ELSE Activated

\* The host after activate(): the hook into the git extension is made in
\* a try/catch (or in a promise with a catch), and the registrations follow.
AfterGitHook(gitExtension) == Activated

\* The host calls activate(context).
Activate(gitExtension) ==
    /\ ~host.activated
    /\ host' = AfterGitHook(gitExtension)
    /\ UNCHANGED <<found, runs, output, gitCalls, searchVars, discVars, view>>

ActivateInit ==
    /\ found \in SUBSET Repos
    /\ runs = [i \in Runs |-> IdleRun]
    /\ output = <<>>
    /\ gitCalls = {}
    /\ host = NotActivated
    /\ view = IdleView
    /\ SearchIdle
    /\ DiscIdle

ActivateNext ==
    \/ \E gitExtension \in GitExtensions : Activate(gitExtension)
    \/ OrchNext

SpecActivate == ActivateInit /\ [][ActivateNext]_vars

\* A line an earlier, finished command left in the output channel.
EarlierLine ==
    [t |-> "plain", repo |-> 0, text |-> <<"earlier">>, by |-> "earlier"]

\* One invocation, started when the channel still shows the output of an
\* earlier command.
OrchLaterInit ==
    /\ found \in SUBSET Repos
    /\ runs = [i \in Runs |-> IdleRun]
    /\ output = <<EarlierLine>>
    /\ gitCalls = {}
    /\ host = Activated
    /\ view = IdleView
    /\ SearchIdle
    /\ DiscIdle

SpecOrchLater == OrchLaterInit /\ [][OrchNext]_vars

\* Two invocations whose lifetimes may overlap (the handlers are async and
\* nothing serialises them), each a runStatus over the discovered list.
ConcNext ==
    \E i \in Runs :
        \/ Invoke(i, "Status", <<>>)
        \/ Start(i)
        \/ Check(i)
        \/ \E ok \in BOOLEAN : GitReturn(i, ok)
        \/ Cancel(i)

SpecConc == OrchInit /\ [][ConcNext]_vars

\* ------------------------------------------------------------------ search
\* b.includes(q) on character sequences.
Includes(b, q) ==
    \E k \in 0 .. Len(b) :
        /\ k + Len(q) <= Len(b)
        /\ SubSeq(b, k + 1, k + Len(q)) = q

\* b.split('/') : the parts between the slashes (always at least one part).
RECURSIVE Split(_)
Split(b) ==
    IF \A n \in 1 .. Len(b) : b[n] # Slash THEN <<b>>
    ELSE LET n == CHOOSE m \in 1 .. Len(b) :
                     /\ b[m] = Slash
                     /\ \A j \in 1 .. m - 1 : b[j] # Slash
         IN  <<SubSeq(b, 1, n - 1)>> \o Split(SubSeq(b, n + 1, Len(b)))

\* parts.join('/')
RECURSIVE Join(_)
Join(parts) ==
    IF Len(parts) = 0 THEN <<>>
    ELSE IF Len(parts) = 1 THEN parts[1]
    ELSE parts[1] \o <<Slash>> \o Join(Tail(parts))

\* Mutation of StripRemote: the first segment is dropped whatever it is.
StripFirstSegment(b) ==
    LET parts == Split(b)
    IN  IF Len(parts) > 1 THEN Join(Tail(parts)) ELSE b

\* The prefix stripping of _searchBranch: a leading origin/ or upstream/.
StripRemote(b) ==
    LET parts == Split(b)
    IN  IF Len(parts) > 1 /\ (parts[1] = ORIGIN \/ parts[1] = UPSTREAM)
        THEN Join(Tail(parts))
        ELSE b

\* name.startsWith(prefix)
StartsWith(name, prefix) ==
    Len(name) >= Len(prefix) /\ SubSeq(name, 1, Len(prefix)) = prefix

\* Mutation of StripTracking: only the leading remotes/ is dropped.
StripRemotesOnly(b) ==
    IF StartsWith(b, REMOTES \o <<Slash>>)
    THEN SubSeq(b, Len(REMOTES) + 2, Len(b))
    ELSE b

\* The prefix stripping of _pickBranchFilter and of runCheckout: the two
\* leading segments of a label that starts with remotes/.
StripTracking(b) ==
    IF StartsWith(b, REMOTES \o <<Slash>>)
    THEN LET parts == Split(b)
         IN  IF Len(parts) > 2 THEN Join(SubSeq(parts, 3, Len(parts))) ELSE b
    ELSE b

\* A label is normalized by the search and by the picker / checkout-all.
NormalizeOnce ==
    /\ norm.pc = "raw"
    /\ norm' = [norm EXCEPT !.pc = "once",
                            !.search = StripRemote(norm.label),
                            !.picker = StripTracking(norm.label)]
    /\ UNCHANGED <<orchVars, branchData, calls, webview, picker, discVars>>

\* The normalized names are normalized again.
NormalizeTwice ==
    /\ norm.pc = "once"
    /\ norm' = [norm EXCEPT !.pc = "twice",
                            !.search2 = StripRemote(norm.search),
                            !.picker2 = StripTracking(norm.picker)]
    /\ UNCHANGED <<orchVars, branchData, calls, webview, picker, discVars>>

NormInit ==
    /\ found = {}
    /\ runs = [i \in Runs |-> IdleRun]
    /\ output = <<>>
    /\ gitCalls = {}
    /\ host = Activated
    /\ view = IdleView
    /\ branchData = [r \in SRepos |-> ProfileOf(r)]
    /\ calls = [c \in Calls |-> IdleCall]
    /\ webview = <<>>
    /\ picker = IdlePicker
    /\ \E l \in NormLabels : norm = [IdleNorm EXCEPT !.pc = "raw", !.label = l]
    /\ DiscIdle

NormNext == NormalizeOnce \/ NormalizeTwice

SpecNorm == NormInit /\ [][NormNext]_vars

\* local.all.filter(b => b.includes(query)).forEach(push)
LocalMatches(p, q) ==
    LET hit == SelectSeq(LocalBranches(p), LAMBDA b : Includes(b, q))
    IN  [n \in 1 .. Len(hit) |-> [label |-> hit[n], value |-> hit[n]]]

\* Mutation of AddRemotes: the `!matches.find(...)` test is missing, every
\* remote hit is pushed.
RECURSIVE AddRemotesNoFind(_, _)
AddRemotesNoFind(matches, hit) ==
    IF hit = <<>> THEN matches
    ELSE AddRemotesNoFind(
             Append(matches, [label |-> Head(hit), value |-> StripRemote(Head(hit))]),
             Tail(hit))

\* Mutation of AddRemotes: a remote match is put in front of the matches
\* (unshift) instead of behind them.
RECURSIVE AddRemotesInFront(_, _)
AddRemotesInFront(matches, hit) ==
    IF hit = <<>> THEN matches
    ELSE LET b == Head(hit)
             branchName == StripRemote(b)
         IN  IF \E n \in 1 .. Len(matches) : matches[n].value = branchName
             THEN AddRemotesInFront(matches, Tail(hit))
             ELSE AddRemotesInFront(
                      <<[label |-> b, value |-> branchName]>> \o matches,
                      Tail(hit))

\* remotes.all.filter(b => b.includes(query)).forEach(strip, dedupe, push)
RECURSIVE AddRemotes(_, _)
AddRemotes(matches, hit) ==
    IF hit = <<>> THEN matches
    ELSE LET b == Head(hit)
             branchName == StripRemote(b)
         IN  IF \E n \in 1 .. Len(matches) : matches[n].value = branchName
             THEN AddRemotes(matches, Tail(hit))
             ELSE AddRemotes(Append(matches, [label |-> b, value |-> branchName]),
                             Tail(hit))

\* Mutation of RemoteMatches: the remote labels are not filtered by the
\* query.
RemoteMatchesUnfiltered(matches, p, q) ==
    AddRemotes(matches, RemoteBranches(p))

\* The matches after the remote branches: the labels that include the
\* query, stripped, pushed unless a match of that value is there.
RemoteMatches(matches, p, q) ==
    AddRemotes(matches, SelectSeq(RemoteBranches(p), LAMBDA b : Includes(b, q)))

\* Mutation of LogOptions: '--all' is not spliced out when a branch is
\* given.
LogOptionsKeepsAll(f) ==
    LET o1 == <<<<"--all", "">>>>
        o2 == IF f.title # "" THEN Append(o1, <<"--grep", f.title>>) ELSE o1
        o3 == IF f.author # "" THEN Append(o2, <<"--author", f.author>>) ELSE o2
        o4 == IF f.dateFrom # "" THEN Append(o3, <<"--since", f.dateFrom>>) ELSE o3
        o5 == IF f.dateTo # "" THEN Append(o4, <<"--until", f.dateTo>>) ELSE o4
    IN  IF f.branch # "" THEN Append(o5, <<"ref", f.branch>>) ELSE o5

\* Mutation of LogOptions: the tests are chained with `else if`, so the
\* author filter is added only without a title, and so on.
LogOptionsFirstFilterOnly(f) ==
    LET o1 == <<<<"--all", "">>>>
        o2 == IF f.title # "" THEN Append(o1, <<"--grep", f.title>>)
              ELSE IF f.author # "" THEN Append(o1, <<"--author", f.author>>)
              ELSE IF f.dateFrom # "" THEN Append(o1, <<"--since", f.dateFrom>>)
              ELSE IF f.dateTo # "" THEN Append(o1, <<"--until", f.dateTo>>)
              ELSE o1
    IN  IF f.branch # ""
        THEN Append(Tail(o2), <<"ref", f.branch>>)
        ELSE o2

\* The logOptions of _searchCommit; an option is <<flag, value>>, the
\* branch ref is <<"ref", name>>.
LogOptions(f) ==
    LET o1 == <<<<"--all", "">>>>
        o2 == IF f.title # "" THEN Append(o1, <<"--grep", f.title>>) ELSE o1
        o3 == IF f.author # "" THEN Append(o2, <<"--author", f.author>>) ELSE o2
        o4 == IF f.dateFrom # "" THEN Append(o3, <<"--since", f.dateFrom>>) ELSE o3
        o5 == IF f.dateTo # "" THEN Append(o4, <<"--until", f.dateTo>>) ELSE o4
    IN  IF f.branch # ""
        THEN LET hasAll == \E n \in 1 .. Len(o5) : o5[n] = <<"--all", "">>
                 index == IF hasAll
                          THEN CHOOSE n \in 1 .. Len(o5) :
                                  /\ o5[n] = <<"--all", "">>
                                  /\ \A j \in 1 .. n - 1 : o5[j] # <<"--all", "">>
                          ELSE 0
                 cut == IF index > 0
                        THEN SubSeq(o5, 1, index - 1) \o SubSeq(o5, index + 1, Len(o5))
                        ELSE o5
             IN  Append(cut, <<"ref", f.branch>>)
        ELSE o5

\* Mutation of IsEmptySearch: the early return is missing.
NeverEmptySearch(kind, q, f) == FALSE

\* Mutation of IsEmptySearch: _searchCommit has no early return.
EmptyBranchQueryOnly(kind, q, f) == kind = "branch" /\ q = <<>>

\* The early return of _searchBranch (`!query`) and of _searchCommit.
IsEmptySearch(kind, q, f) ==
    IF kind = "branch" THEN q = <<>>
    ELSE f.title = "" /\ f.author = "" /\ f.dateFrom = ""
         /\ f.dateTo = "" /\ f.branch = ""

Msg(c, type, results) == [type |-> type, by |-> c, results |-> results]

\* The webview sends searchBranch / searchCommit; the handler runs up to
\* its first await (getAllGitRepos).
SearchInvoke(c, kind, q, f) ==
    /\ calls[c].pc = "idle"
    /\ IF IsEmptySearch(kind, q, f)
       THEN /\ calls' = [calls EXCEPT ![c] =
                           [@ EXCEPT !.kind = kind, !.query = q, !.filters = f,
                                     !.pc = "done"]]
            /\ UNCHANGED webview
       ELSE /\ calls' = [calls EXCEPT ![c] =
                           [@ EXCEPT !.kind = kind, !.query = q, !.filters = f,
                                     !.pc = "discover"]]
            /\ webview' = Append(webview, Msg(c, "started", <<>>))
    /\ UNCHANGED <<orchVars, branchData, norm, picker, discVars>>

\* getAllGitRepos() returned: repos.map(async ...) starts one query per
\* repository, each running up to its first await (git.branchLocal()).
FanOut(c) ==
    /\ calls[c].pc = "discover"
    /\ calls' = [calls EXCEPT ![c] =
                   [@ EXCEPT !.repos = found, !.pc = "fanout",
                             !.task = [r \in SRepos |->
                                          IF r \in found
                                          THEN [IdleTask EXCEPT !.st = "branchLocal"]
                                          ELSE IdleTask]]]
    /\ UNCHANGED <<orchVars, branchData, webview, norm, picker, discVars>>

Entry(c, r, matches) ==
    [path |-> r, currentBranch |-> CurrentBranch(branchData[r]),
     matches |-> matches]

\* Mutation of ResultsAfterFail: what the query had matched before it threw
\* is pushed all the same (a push in a finally block).
ResultsPushedOnFail(c, r) ==
    Append(calls[c].results, Entry(c, r, calls[c].task[r].matches))

\* The results array after the query of repository r threw: the catch
\* block only logs to the console.
ResultsAfterFail(c, r) == calls[c].results

\* Mutation of ResultsAfterMatches: the `matches.length > 0` (and
\* `log.total > 0`) test is missing.
ResultsPushedAlways(c, r, matches) ==
    Append(calls[c].results, Entry(c, r, matches))

\* The results array after the query of repository r computed `matches`.
ResultsAfterMatches(c, r, matches) ==
    IF Len(matches) > 0
    THEN Append(calls[c].results, Entry(c, r, matches))
    ELSE calls[c].results

\* The git call a per-repository query awaits settles: ok or not, and for
\* git.log with n commits.
TaskSettle(c, r, ok, n) ==
    /\ calls[c].pc = "fanout"
    /\ LET t == calls[c].task[r]
           p == branchData[r]
       IN  /\ t.st \in {"branchLocal", "branchRemote", "log"}
           /\ (t.st # "log" \/ ~ok) => n = 0
           /\ IF ~ok
              THEN calls' = [calls EXCEPT ![c] =
                               [@ EXCEPT !.task[r].st = "failed",
                                         !.results = ResultsAfterFail(c, r)]]
              ELSE CASE t.st = "branchLocal" /\ calls[c].kind = "branch" ->
                          calls' = [calls EXCEPT ![c].task[r] =
                                      [@ EXCEPT !.st = "branchRemote",
                                                !.matches = LocalMatches(p, calls[c].query)]]
                     [] t.st = "branchLocal" /\ calls[c].kind = "commit" ->
                          calls' = [calls EXCEPT ![c].task[r] =
                                      [@ EXCEPT !.st = "log",
                                                !.plan = LogOptions(calls[c].filters)]]
                     [] t.st = "branchRemote" ->
                          LET matches == RemoteMatches(t.matches, p, calls[c].query)
                          IN  calls' = [calls EXCEPT ![c] =
                                          [@ EXCEPT !.task[r].st = "done",
                                                    !.task[r].matches = matches,
                                                    !.results = ResultsAfterMatches(c, r, matches)]]
                     [] t.st = "log" ->
                          LET matches == [j \in 1 .. n |-> [label |-> <<"c">>, value |-> <<"c">>]]
                          IN  calls' = [calls EXCEPT ![c] =
                                          [@ EXCEPT !.task[r].st = "done",
                                                    !.task[r].total = n,
                                                    !.task[r].matches = matches,
                                                    !.results = ResultsAfterMatches(c, r, matches)]]
    /\ UNCHANGED <<orchVars, branchData, webview, norm, picker, discVars>>

\* Mutation of AllSettled: Promise.race / Promise.any, the first query to
\* settle releases the await.
AnySettled(c) ==
    \/ calls[c].repos = {}
    \/ \E r \in calls[c].repos : calls[c].task[r].st \in {"done", "failed"}

\* Promise.all(repos.map(...)) is fulfilled: every query has settled.
AllSettled(c) ==
    \A r \in calls[c].repos : calls[c].task[r].st \in {"done", "failed"}

\* Mutation of ResultsMessage: the results array is a field of the
\* provider that every call pushes to.
SharedResultsMessage(c) ==
    Msg(c, "results", calls["s1"].results \o calls["s2"].results)

\* { type: 'results', results } with the results array of this call.
ResultsMessage(c) == Msg(c, "results", calls[c].results)

\* The await of Promise.all resumes: the one results message is posted.
PostResults(c) ==
    /\ calls[c].pc = "fanout"
    /\ AllSettled(c)
    /\ calls' = [calls EXCEPT ![c] = [@ EXCEPT !.pc = "done"]]
    /\ webview' = Append(webview, ResultsMessage(c))
    /\ UNCHANGED <<orchVars, branchData, norm, picker, discVars>>

\* ------------------------------------------------------ _pickBranchFilter
\* branches.all of git.branch(): simple-git lists `git branch -a`, the
\* local branches and the remote ones as remotes/<remote>/<name>.
BranchAll(p) ==
    LocalBranches(p) \o
    [n \in 1 .. Len(RemoteBranches(p)) |->
        REMOTES \o <<Slash>> \o RemoteBranches(p)[n]]

\* The characters of the labels in the order of their UTF-16 code units.
CharOrder ==
    <<".", "/", "0", "1", "2", "3", "4", "5", "6", "7", "8", "9",
      "a", "b", "c", "d", "e", "f", "g", "h", "i", "j", "k", "l", "m",
      "n", "o", "p", "q", "r", "s", "t", "u", "v", "w", "x", "y", "z">>

CodeUnit(ch) == CHOOSE n \in 1 .. Len(CharOrder) : CharOrder[n] = ch

\* a < b as Array.prototype.sort() compares strings without a comparator.
RECURSIVE Less(_, _)
Less(a, b) ==
    IF a = <<>> THEN b # <<>>
    ELSE IF b = <<>> THEN FALSE
    ELSE IF a[1] = b[1] THEN Less(Tail(a), Tail(b))
    ELSE CodeUnit(a[1]) < CodeUnit(b[1])

\* Array.from(allBranches).sort()
RECURSIVE Sort(_)
Sort(S) ==
    IF S = {} THEN <<>>
    ELSE LET least == CHOOSE x \in S : \A y \in S \ {x} : Less(x, y)
         IN  <<least>> \o Sort(S \ {least})

\* The picker is opened; the handler runs up to `await getAllGitRepos()`.
PickInvoke ==
    /\ picker.pc = "idle"
    /\ picker' = [picker EXCEPT !.pc = "discover"]
    /\ UNCHANGED <<orchVars, branchData, calls, webview, norm, discVars>>

\* repos.map(async ...) starts one git.branch() per repository.
PickFanOut ==
    /\ picker.pc = "discover"
    /\ picker' = [picker EXCEPT
                     !.pc = "fanout",
                     !.repos = found,
                     !.task = [r \in SRepos |->
                                 IF r \in found THEN "branch" ELSE "none"]]
    /\ UNCHANGED <<orchVars, branchData, calls, webview, norm, discVars>>

\* git.branch() of repository r settles: the stripped names are added to
\* allBranches, or the catch block logs the error.
PickSettle(r, ok) ==
    /\ picker.pc = "fanout"
    /\ picker.task[r] = "branch"
    /\ picker' =
          IF ok
          THEN [picker EXCEPT
                  !.task[r] = "done",
                  !.allBranches =
                      @ \cup {StripTracking(BranchAll(branchData[r])[n]) :
                                 n \in 1 .. Len(BranchAll(branchData[r]))}]
          ELSE [picker EXCEPT !.task[r] = "failed"]
    /\ UNCHANGED <<orchVars, branchData, calls, webview, norm, discVars>>

\* Promise.all is fulfilled: the sorted names are shown in the quick pick.
PickShow ==
    /\ picker.pc = "fanout"
    /\ \A r \in picker.repos : picker.task[r] \in {"done", "failed"}
    /\ picker' = [picker EXCEPT !.pc = "shown",
                                !.sortedBranches = Sort(picker.allBranches)]
    /\ UNCHANGED <<orchVars, branchData, calls, webview, norm, discVars>>

\* showQuickPick returns a name (posted as branchFilterSelected) or
\* undefined (<<>> here).
PickChoose(pick) ==
    /\ picker.pc = "shown"
    /\ picker' = [picker EXCEPT !.pc = "done"]
    /\ webview' = IF pick # <<>>
                  THEN Append(webview, Msg("picker", "branchFilterSelected", pick))
                  ELSE webview
    /\ UNCHANGED <<orchVars, branchData, calls, norm, discVars>>

PickInit ==
    /\ found \in SUBSET SRepos
    /\ runs = [i \in Runs |-> IdleRun]
    /\ output = <<>>
    /\ gitCalls = {}
    /\ host = Activated
    /\ view = IdleView
    /\ SearchIdle
    /\ DiscIdle

PickNext ==
    \/ PickInvoke
    \/ PickFanOut
    \/ \E r \in SRepos, ok \in BOOLEAN : PickSettle(r, ok)
    \/ PickShow
    \/ \E pick \in {picker.sortedBranches[n] :
                        n \in 1 .. Len(picker.sortedBranches)} \cup {<<>>} :
          PickChoose(pick)

SpecPick == PickInit /\ [][PickNext]_vars

\* ------------------------------------------- the checkout button of a match
\* m.value.replace(/'/g, "\\'") in the webview script.
RECURSIVE SafeBranch(_)
SafeBranch(v) ==
    IF v = <<>> THEN <<>>
    ELSE IF Head(v) = "'" THEN <<"\\", "'">> \o SafeBranch(Tail(v))
    ELSE <<Head(v)>> \o SafeBranch(Tail(v))

\* The branch argument inside onclick="checkoutBranch('...', '...')" as the
\* template literal writes it into the markup.
ButtonMarkup(v) == <<"'">> \o SafeBranch(v) \o <<"'">>

\* What the HTML parser makes of the text of a double-quoted attribute:
\* the value ends at the first double quote.
RECURSIVE UpToDoubleQuote(_)
UpToDoubleQuote(t) ==
    IF t = <<>> \/ Head(t) = "\"" THEN <<>>
    ELSE <<Head(t)>> \o UpToDoubleQuote(Tail(t))

\* ... and a character reference in it stands for its character (&amp;
\* stands for all of them here).
RECURSIVE DecodeReferences(_)
DecodeReferences(t) ==
    IF t = <<>> THEN <<>>
    ELSE IF Len(t) >= 5 /\ SubSeq(t, 1, 5) = <<"&", "a", "m", "p", ";">>
         THEN <<"&">> \o DecodeReferences(SubSeq(t, 6, Len(t)))
         ELSE <<Head(t)>> \o DecodeReferences(Tail(t))

AttributeValue(t) == DecodeReferences(UpToDoubleQuote(t))

\* The characters of a JavaScript string literal after its opening quote,
\* up to the closing quote: [ok, value, rest]; ok is false when the text
\* ends before the literal does.
RECURSIVE LiteralBody(_)
LiteralBody(t) ==
    IF t = <<>> THEN [ok |-> FALSE, value |-> <<>>, rest |-> <<>>]
    ELSE IF Head(t) = "'" THEN [ok |-> TRUE, value |-> <<>>, rest |-> Tail(t)]
    ELSE IF Head(t) = "\\" /\ Len(t) >= 2
         THEN LET b == LiteralBody(SubSeq(t, 3, Len(t)))
              IN  [b EXCEPT !.value = <<t[2]>> \o @]
         ELSE LET b == LiteralBody(Tail(t))
              IN  [b EXCEPT !.value = <<Head(t)>> \o @]

\* The argument the click handler passes, when the attribute is a call
\* that compiles: [ok, value].
ClickArgument(v) ==
    LET t == AttributeValue(ButtonMarkup(v))
        b == IF t # <<>> /\ Head(t) = "'"
             THEN LiteralBody(Tail(t))
             ELSE [ok |-> FALSE, value |-> <<>>, rest |-> <<>>]
    IN  [ok |-> b.ok /\ b.rest = <<>>, value |-> b.value]

\* The normalized names of the matches whose button is followed.
ReportedNames == {B_main, B_dev, R_fork_main, N_quote, N_dquote, N_amp}

\* ------------------------------------- _checkoutBranch and updateRepoState
ViewLine(t, r, text) == [t |-> t, repo |-> r, text |-> text, by |-> "checkout"]

BranchUpdated(c, r, b) ==
    [type |-> "branchUpdated", by |-> c, repo |-> r, branchName |-> b,
     results |-> <<>>]

\* repo.state.onDidChange of the git extension: updateRepoState(r) is
\* called when the provider is subscribed; it runs up to its await of
\* git.branchLocal().
Notified(r) ==
    IF view.hooked
    THEN LET u == CHOOSE x \in Updates : view.up[x].pc = "idle"
         IN  [view.up EXCEPT ![u] = [IdleUpdate EXCEPT !.pc = "reading",
                                                       !.repo = r]]
    ELSE view.up

CanNotify == view.hooked => \E u \in Updates : view.up[u].pc = "idle"

\* The Checkout button of the match v of repository r is pressed: the
\* webview posts checkoutBranch and _checkoutBranch runs up to its await
\* of git.branch(); nothing is posted when the handler does not compile.
ClickCheckout(r, v) ==
    /\ view.co.pc = "idle"
    /\ LET arg == ClickArgument(v)
       IN  IF arg.ok
           THEN /\ view' = [view EXCEPT !.co =
                              [pc |-> "branch", repo |-> r, reported |-> v,
                               branchName |-> arg.value, failed |-> FALSE]]
                /\ output' = Append(output,
                                ViewLine("header", r, <<"Checkout">> \o arg.value))
           ELSE /\ view' = [view EXCEPT !.co =
                              [IdleCheckout EXCEPT !.pc = "dead", !.repo = r,
                                                   !.reported = v]]
                /\ UNCHANGED output
    /\ UNCHANGED <<found, runs, gitCalls, host, searchVars, discVars>>

\* The line and the state the catch block of _checkoutBranch leaves.
CheckoutCaught ==
    /\ view' = [view EXCEPT !.co.pc = "done", !.co.failed = TRUE]
    /\ output' = Append(output, ViewLine("error", view.co.repo, <<"Error">>))
    /\ UNCHANGED webview

\* git.branch() settles; both branches of the `if` go on to git.checkout.
CheckoutListed(ok) ==
    /\ view.co.pc = "branch"
    /\ IF ok
       THEN /\ view' = [view EXCEPT !.co.pc = "checkout"]
            /\ UNCHANGED <<output, webview>>
       ELSE CheckoutCaught
    /\ UNCHANGED <<found, runs, gitCalls, host, branchData, calls, norm,
                   picker, discVars>>

\* git checkout runs in the repository: it moves the repository to the
\* branch, which the git extension notices, or it fails.
CheckoutRuns(ok) ==
    /\ view.co.pc = "checkout"
    /\ ok => CanNotify
    /\ view' = IF ok
               THEN [view EXCEPT !.co.pc = "return",
                                 !.head[view.co.repo] = view.co.branchName,
                                 !.up = Notified(view.co.repo)]
               ELSE [view EXCEPT !.co.pc = "return", !.co.failed = TRUE]
    /\ UNCHANGED <<found, runs, output, gitCalls, host, searchVars, discVars>>

\* The await of git.checkout resumes: the success is written and posted,
\* or the catch block logs the error.
CheckoutReturns ==
    /\ view.co.pc = "return"
    /\ IF view.co.failed
       THEN CheckoutCaught
       ELSE /\ view' = [view EXCEPT !.co.pc = "done"]
            /\ output' = Append(output,
                            ViewLine("plain", view.co.repo, <<"Checked out">>))
            /\ webview' = Append(webview,
                             BranchUpdated("checkout", view.co.repo,
                                           view.co.branchName))
    /\ UNCHANGED <<found, runs, gitCalls, host, branchData, calls, norm,
                   picker, discVars>>

\* The branch of repository r is changed outside the view (terminal,
\* source control view).
ExternalChange(r, b) ==
    /\ view.head[r] # b
    /\ CanNotify
    /\ view' = [view EXCEPT !.head[r] = b, !.up = Notified(r)]
    /\ UNCHANGED <<found, runs, output, gitCalls, host, searchVars, discVars>>

\* git branch of updateRepoState reads the current branch, or fails (the
\* catch block logs to the console).
UpdateReads(u, ok) ==
    /\ view.up[u].pc = "reading"
    /\ view' = IF ok
               THEN [view EXCEPT !.up[u].pc = "read",
                                 !.up[u].current = view.head[view.up[u].repo]]
               ELSE [view EXCEPT !.up[u].pc = "done"]
    /\ UNCHANGED <<found, runs, output, gitCalls, host, searchVars, discVars>>

\* The await of git.branchLocal() resumes: branchUpdated is posted.
UpdatePosts(u) ==
    /\ view.up[u].pc = "read"
    /\ view' = [view EXCEPT !.up[u].pc = "done"]
    /\ webview' = Append(webview,
                     BranchUpdated(u, view.up[u].repo, view.up[u].current))
    /\ UNCHANGED <<found, runs, output, gitCalls, host, branchData, calls,
                   norm, picker, discVars>>

\* The view over the repositories of the workspace, each on its current
\* branch, with or without the subscription to the git extension.
ViewInit ==
    /\ found = SRepos
    /\ runs = [i \in Runs |-> IdleRun]
    /\ output = <<>>
    /\ gitCalls = {}
    /\ host = Activated
    /\ SearchIdle
    /\ DiscIdle
    /\ \E hooked \in BOOLEAN :
          view = [IdleView EXCEPT
                    !.head = [r \in SRepos |-> CurrentBranch(ProfileOf(r))],
                    !.hooked = hooked]

ViewNext ==
    \/ \E r \in SRepos, v \in ReportedNames : ClickCheckout(r, v)
    \/ \E ok \in BOOLEAN : CheckoutListed(ok)
    \/ \E ok \in BOOLEAN : CheckoutRuns(ok)
    \/ CheckoutReturns
    \/ \E r \in SRepos, b \in {B_main, B_dev} : ExternalChange(r, b)
    \/ \E u \in Updates, ok \in BOOLEAN : UpdateReads(u, ok)
    \/ \E u \in Updates : UpdatePosts(u)

SpecView == ViewInit /\ [][ViewNext]_vars

\* ------------------------------------------------------------ runCheckout
\* The elements of a sequence.
Range(seq) == {seq[n] : n \in 1 .. Len(seq)}

\* The part of a remote label after its first segment.
AfterFirstSlash(b) ==
    LET k == CHOOSE n \in 1 .. Len(b) :
                 b[n] = Slash /\ \A j \in 1 .. n - 1 : b[j] # Slash
    IN  SubSeq(b, k + 1, Len(b))

\* The names of the branches of a repository: its local branches and its
\* remote branches without the remote.
NamesOf(p) ==
    Range(LocalBranches(p)) \cup
    {AfterFirstSlash(b) : b \in Range(RemoteBranches(p))}

\* Mutation of CheckoutTargets: only the repositories whose listing showed
\* the picked branch are handed to runGitOperation.
CheckoutTargetsWithBranch(list, pick) ==
    SelectSeq(list, LAMBDA r : /\ picker.task[r] = "done"
                               /\ pick \in NamesOf(branchData[r]))

\* The list runCheckout hands to runGitOperation: targetRepos, whatever
\* the listing said.
CheckoutTargets(list, pick) == list

\* checkoutAll, or runCheckout(repos) from a caller: up to the resolution
\* of targetRepos; no name is picked yet (args is <<>>).
CheckoutAllInvoke(i, repos) ==
    /\ runs[i].pc = "idle"
    /\ picker.pc = "idle"
    /\ CommandsOf("Checkout") \cap host.commands # {}
    /\ runs' = [runs EXCEPT ![i] =
                  [@ EXCEPT !.op = "Checkout", !.explicit = (repos # <<>>),
                            !.list = repos, !.args = <<>>,
                            !.pc = "targets"]]
    /\ UNCHANGED <<found, output, gitCalls, host, view, searchVars, discVars>>

\* targetRepos is known: warn and return when it is empty, else start one
\* git.branch(["-a"]) per repository.
CheckoutAllFanOut(i) ==
    /\ runs[i].pc = "targets"
    /\ LET targetRepos == IF runs[i].explicit THEN runs[i].list ELSE getAllRepos
       IN  IF Len(targetRepos) = 0
           THEN /\ runs' = [runs EXCEPT ![i] =
                              [@ EXCEPT !.warned = TRUE, !.pc = "done"]]
                /\ UNCHANGED picker
           ELSE /\ runs' = [runs EXCEPT ![i] =
                              [@ EXCEPT !.list = targetRepos, !.pc = "listing"]]
                /\ picker' = [picker EXCEPT
                                 !.pc = "fanout",
                                 !.repos = Range(targetRepos),
                                 !.task = [r \in SRepos |->
                                             IF r \in Range(targetRepos)
                                             THEN "branch" ELSE "none"]]
    /\ UNCHANGED <<found, output, gitCalls, host, view, branchData, calls,
                   webview, norm, discVars>>

\* git.branch(["-a"]) of repository r settles: the names are added to
\* allBranches, remotes/<remote>/ stripped; a failure is ignored.
CheckoutAllSettle(i, r, ok) ==
    /\ runs[i].pc = "listing"
    /\ picker.pc = "fanout"
    /\ picker.task[r] = "branch"
    /\ picker' =
          IF ok
          THEN [picker EXCEPT
                  !.task[r] = "done",
                  !.allBranches =
                      @ \cup {StripTracking(BranchAll(branchData[r])[n]) :
                                 n \in 1 .. Len(BranchAll(branchData[r]))}]
          ELSE [picker EXCEPT !.task[r] = "failed"]
    /\ UNCHANGED <<orchVars, branchData, calls, webview, norm, discVars>>

\* Promise.all is fulfilled: the sorted names are shown in the quick pick.
CheckoutAllShow(i) ==
    /\ runs[i].pc = "listing"
    /\ picker.pc = "fanout"
    /\ \A r \in picker.repos : picker.task[r] \in {"done", "failed"}
    /\ picker' = [picker EXCEPT !.pc = "shown",
                                !.sortedBranches = Sort(picker.allBranches)]
    /\ UNCHANGED <<orchVars, branchData, calls, webview, norm, discVars>>

\* showQuickPick returns a name or undefined (<<>> here): `if (!pick)
\* return;`, else runGitOperation(`Checkout ${pick}`, targetRepos, ...).
CheckoutAllChoose(i, pick) ==
    /\ runs[i].pc = "listing"
    /\ picker.pc = "shown"
    /\ picker' = [picker EXCEPT !.pc = "done"]
    /\ runs' = [runs EXCEPT ![i] =
                  IF pick = <<>>
                  THEN [@ EXCEPT !.pc = "done"]
                  ELSE [@ EXCEPT !.args = pick, !.explicit = TRUE,
                                 !.list = CheckoutTargets(runs[i].list, pick),
                                 !.pc = "start"]]
    /\ UNCHANGED <<found, output, gitCalls, host, view, branchData, calls,
                   webview, norm, discVars>>

\* git checkout <pick> of the current repository settles; it cannot
\* succeed in a repository that has no branch of that name, local or
\* remote.
CheckoutAllReturn(i, ok) ==
    /\ runs[i].op = "Checkout"
    /\ runs[i].pc = "action"
    /\ ok => runs[i].args \in NamesOf(branchData[CurRepo(i)])
    /\ GitReturn(i, ok)

CheckoutAllInit ==
    /\ found \in SUBSET Repos
    /\ runs = [i \in Runs |-> IdleRun]
    /\ output = <<>>
    /\ gitCalls = {}
    /\ host = Activated
    /\ view = IdleView
    /\ SearchIdle
    /\ DiscIdle

CheckoutAllNext ==
    \/ \E repos \in ExplicitLists \cup {<<>>} : CheckoutAllInvoke("r1", repos)
    \/ CheckoutAllFanOut("r1")
    \/ \E r \in SRepos, ok \in BOOLEAN : CheckoutAllSettle("r1", r, ok)
    \/ CheckoutAllShow("r1")
    \/ \E pick \in {picker.sortedBranches[n] :
                        n \in 1 .. Len(picker.sortedBranches)} \cup {<<>>} :
          CheckoutAllChoose("r1", pick)
    \/ Start("r1")
    \/ Check("r1")
    \/ \E ok \in BOOLEAN : CheckoutAllReturn("r1", ok)
    \/ Cancel("r1")

SpecCheckoutAll == CheckoutAllInit /\ [][CheckoutAllNext]_vars

SearchInit ==
    /\ found \in {{}, SRepos}
    /\ runs = [i \in Runs |-> IdleRun]
    /\ output = <<>>
    /\ gitCalls = {}
    /\ host = Activated
    /\ view = IdleView
    /\ branchData = [r \in SRepos |-> ProfileOf(r)]
    /\ calls = [c \in Calls |-> IdleCall]
    /\ webview = <<>>
    /\ picker = IdlePicker
    /\ norm = IdleNorm
    /\ DiscIdle

\* One search call at a time.
SearchNext ==
    \/ \E q \in Queries : SearchInvoke("s1", "branch", q, NoFilters)
    \/ \E f \in FilterSets : SearchInvoke("s1", "commit", <<>>, f)
    \/ FanOut("s1")
    \/ \E r \in SRepos, ok \in BOOLEAN, n \in 0 .. MaxCommits :
          TaskSettle("s1", r, ok, n)
    \/ PostResults("s1")

SpecSearch == SearchInit /\ [][SearchNext]_vars

\* The branch queries of two searches typed one after the other.
QueryOf(c) ==
    IF c = "s1" THEN B_main ELSE <<"r", "e", "l", "e", "a", "s", "e">>

SearchConcInit ==
    /\ SearchInit
    /\ found = SRepos

\* onDidReceiveMessage does not wait for the handler of the message before:
\* a search can be invoked while another is in flight.
SearchConcNext ==
    \E c \in Calls :
        \/ SearchInvoke(c, "branch", QueryOf(c), NoFilters)
        \/ FanOut(c)
        \/ \E r \in SRepos, ok \in BOOLEAN : TaskSettle(c, r, ok, 0)
        \/ PostResults(c)

SpecSearchConc == SearchConcInit /\ [][SearchConcNext]_vars

\* The same branch search run twice over the same repositories.
SearchTwiceNext ==
    \E c \in Calls :
        \/ SearchInvoke(c, "branch", B_main, NoFilters)
        \/ FanOut(c)
        \/ \E r \in SRepos, ok \in BOOLEAN : TaskSettle(c, r, ok, 0)
        \/ PostResults(c)

SpecSearchTwice == SearchConcInit /\ [][SearchTwiceNext]_vars

\* --------------------------------------------------------------- discovery
\* hasDotGit(dir): fs.stat(path.join(dir, '.git')) succeeds.
hasDotGit(dir) == tree[dir] = "repo"

\* fs.readdir(dir, {withFileTypes: true}): the entries of dir, or throws.
ReaddirThrows(dir) == tree[dir] \in {"locked", "file"}

Entries(dir) == {p \in DOMAIN tree : Len(p) = Len(dir) + 1 /\ Parent(p) = dir}

\* Mutation of shouldSkipEntry: the excludeFolders test is missing.
SkipsOnlyNonDirectories(p, excludeFolders) == tree[p] = "file"

\* shouldSkipEntry(entry, excludeFolders), for the entry at path p.
shouldSkipEntry(p, excludeFolders) ==
    \/ tree[p] = "file"
    \/ p[Len(p)] \in excludeFolders

\* Mutation of Pushed: the entry '.' is not skipped, so the directory is
\* pushed again with its entries.
PushedWithDot(dir, depth, maxDepth) ==
    IF hasDotGit(dir) THEN {}
    ELSE IF depth >= maxDepth THEN {}
    ELSE IF ReaddirThrows(dir) THEN {}
    ELSE {dir} \cup
         {p \in Entries(dir) : ~shouldSkipEntry(p, policy.excludeFolders)}

\* Mutation of Pushed: no `continue` after repos.add(dir), the scan goes
\* on below a repository.
PushedBelowRepos(dir, depth, maxDepth) ==
    IF depth >= maxDepth THEN {}
    ELSE IF ReaddirThrows(dir) THEN {}
    ELSE {p \in Entries(dir) : ~shouldSkipEntry(p, policy.excludeFolders)}

\* Mutation of Pushed: the depth test is `depth > maxDepth`.
PushedOneTooDeep(dir, depth, maxDepth) ==
    IF hasDotGit(dir) THEN {}
    ELSE IF depth > maxDepth THEN {}
    ELSE IF ReaddirThrows(dir) THEN {}
    ELSE {p \in Entries(dir) : ~shouldSkipEntry(p, policy.excludeFolders)}

\* Mutation of Pushed: the entries are pushed only while at most one
\* directory waits on the stack, so what is scanned depends on the order
\* in which readdir lists the entries.
PushedUnlessStackBusy(dir, depth, maxDepth) ==
    IF hasDotGit(dir) THEN {}
    ELSE IF depth >= maxDepth THEN {}
    ELSE IF ReaddirThrows(dir) THEN {}
    ELSE IF Len(scan.stack) > 1 THEN {}
    ELSE {p \in Entries(dir) : ~shouldSkipEntry(p, policy.excludeFolders)}

\* The children one loop iteration pushes for {dir, depth}, as a set.
Pushed(dir, depth, maxDepth) ==
    IF hasDotGit(dir) THEN {}
    ELSE IF depth >= maxDepth THEN {}
    ELSE IF ReaddirThrows(dir) THEN {}
    ELSE {p \in Entries(dir) : ~shouldSkipEntry(p, policy.excludeFolders)}

\* All orders in which readdir may list a set of entries.
RECURSIVE Orders(_)
Orders(S) ==
    IF S = {} THEN {<<>>}
    ELSE UNION {{<<x>> \o o : o \in Orders(S \ {x})} : x \in S}

\* Whether the iteration for {dir, depth} reaches fs.readdir and it throws.
ReaddirFails(dir, depth, maxDepth) ==
    ~hasDotGit(dir) /\ depth < maxDepth /\ ReaddirThrows(dir)

\* Mutation of AfterReaddirError: the catch block returns what was found
\* so far instead of going on with the loop.
ReturnOnReaddirError(rest) == <<>>

\* The stack after `catch { continue; }` around fs.readdir: the loop goes
\* on with the items that were left.
AfterReaddirError(rest) == rest

\* One iteration of `while (stack.length > 0)`.
DiscoverStep ==
    /\ scan.no \in {1, 2}
    /\ Len(scan.stack) > 0
    /\ LET item == scan.stack[Len(scan.stack)]
           rest == SubSeq(scan.stack, 1, Len(scan.stack) - 1)
           maxDepth == policy.maxDepth[scan.no]
       IN  \E order \in Orders(Pushed(item.dir, item.depth, maxDepth)) :
              scan' = [scan EXCEPT
                         !.stack =
                            IF ReaddirFails(item.dir, item.depth, maxDepth)
                            THEN AfterReaddirError(rest)
                            ELSE rest \o
                                 [n \in 1 .. Len(order) |->
                                    [dir |-> order[n], depth |-> item.depth + 1]],
                         !.repos = IF hasDotGit(item.dir)
                                   THEN @ \cup {item.dir} ELSE @,
                         !.popped = Append(@, item.dir)]
    /\ UNCHANGED <<orchVars, searchVars, tree, policy, ws>>

\* `return Array.from(repos)`; the next call of discoverGitRepos starts
\* with the depth configured by then.
DiscoverReturn ==
    /\ scan.no \in {1, 2}
    /\ Len(scan.stack) = 0
    /\ scan' = [scan EXCEPT
                  !.results[scan.no] = scan.repos,
                  !.no = IF scan.no = 1 THEN 2 ELSE 3,
                  !.stack = IF scan.no = 1
                            THEN <<[dir |-> <<>>, depth |-> 0]>> ELSE <<>>,
                  !.repos = IF scan.no = 1 THEN {} ELSE scan.repos,
                  !.popped = IF scan.no = 1 THEN <<>> ELSE scan.popped]
    /\ UNCHANGED <<orchVars, searchVars, tree, policy, ws>>

\* discoverGitRepos(root, {maxDepth, excludeFolders}) as a function: the
\* same loop, with readdir listing the entries in one fixed order.
RECURSIVE Walk(_, _, _)
Walk(stack, repos, maxDepth) ==
    IF stack = <<>> THEN repos
    ELSE LET item == stack[Len(stack)]
             rest == SubSeq(stack, 1, Len(stack) - 1)
             order == CHOOSE o \in Orders(Pushed(item.dir, item.depth, maxDepth)) :
                         TRUE
         IN  Walk(IF ReaddirFails(item.dir, item.depth, maxDepth)
                  THEN AfterReaddirError(rest)
                  ELSE rest \o [n \in 1 .. Len(order) |->
                                  [dir |-> order[n], depth |-> item.depth + 1]],
                  IF hasDotGit(item.dir) THEN repos \cup {item.dir} ELSE repos,
                  maxDepth)

discoverGitRepos(root, maxDepth) ==
    Walk(<<[dir |-> root, depth |-> 0]>>, {}, maxDepth)

DiscInit ==
    /\ found = {}
    /\ runs = [i \in Runs |-> IdleRun]
    /\ output = <<>>
    /\ gitCalls = {}
    /\ host = Activated
    /\ view = IdleView
    /\ SearchIdle
    /\ tree \in Trees
    /\ policy \in [maxDepth : (0 .. MaxDepthSetting) \X (0 .. MaxDepthSetting),
                   excludeFolders : ExcludeSets]
    /\ scan = [IdleScan EXCEPT !.no = 1,
                               !.stack = <<[dir |-> <<>>, depth |-> 0]>>]
    /\ ws = IdleWs

DiscNext == DiscoverStep \/ DiscoverReturn

SpecDisc == DiscInit /\ [][DiscNext]_vars

\* The loop of discoverGitRepos is not suspended for ever: every await in
\* it (stat, readdir) settles.
SpecDiscFair == SpecDisc /\ WF_vars(DiscNext)

\* ---------------------------------------------------------- getAllGitRepos
\* vscode.workspace.workspaceFolders: the roots of the workspaces followed,
\* by their path in the tree; <<>> as a list stands for no open workspace.
\* A root may lie inside another root.
FolderLists ==
    {<<>>, << <<>> >>, << <<>>, <<"a">> >>, << <<>>, <<"a", "c">> >>,
     << <<"a">>, <<"b">> >>, << <<"a", "c">>, <<"a">> >>}

\* isGitRepo(cwd): simple-git's checkIsRepo() runs
\* `git rev-parse --is-inside-work-tree` in cwd, which answers true in a
\* directory that holds a .git entry and in every directory below one;
\* simpleGit(cwd) throws when cwd is no directory, and that is caught.
isGitRepo(cwd) ==
    /\ tree[cwd] # "file"
    /\ \E k \in 0 .. Len(cwd) : tree[SubSeq(cwd, 1, k)] = "repo"

\* Array.from(repos): the elements of the Set as an array.
ArrayFrom(S) == CHOOSE o \in Orders(S) : TRUE

\* Mutation of NewSet: `return allRepos`.
KeepsDuplicates(allRepos) == allRepos

\* [...new Set(allRepos)]: the first occurrence of every path, in order.
RECURSIVE NewSet(_)
NewSet(allRepos) ==
    IF allRepos = <<>> THEN <<>>
    ELSE LET front == NewSet(SubSeq(allRepos, 1, Len(allRepos) - 1))
             last == allRepos[Len(allRepos)]
         IN  IF \E n \in 1 .. Len(front) : front[n] = last
             THEN front ELSE Append(front, last)

\* `if (!folders) return [];`
GetAllNoFolders ==
    /\ ws.pc = "loop"
    /\ ws.folders = <<>>
    /\ ws' = [ws EXCEPT !.pc = "done", !.result = <<>>]
    /\ UNCHANGED <<orchVars, searchVars, tree, policy, scan>>

\* One iteration of `for (const folder of folders)`.
GetAllFolder ==
    /\ ws.pc = "loop"
    /\ ws.idx <= Len(ws.folders)
    /\ LET root == ws.folders[ws.idx]
       IN  ws' = IF ws.scanNested
                 THEN [ws EXCEPT
                         !.idx = @ + 1,
                         !.allRepos = @ \o ArrayFrom(
                             discoverGitRepos(root, policy.maxDepth[1]))]
                 ELSE [ws EXCEPT
                         !.idx = @ + 1,
                         !.checks = @ + 1,
                         !.allRepos = IF isGitRepo(root)
                                      THEN Append(@, root) ELSE @]
    /\ UNCHANGED <<orchVars, searchVars, tree, policy, scan>>

\* `return [...new Set(allRepos)];`
GetAllReturn ==
    /\ ws.pc = "loop"
    /\ ws.folders # <<>>
    /\ ws.idx > Len(ws.folders)
    /\ ws' = [ws EXCEPT !.pc = "done", !.result = NewSet(ws.allRepos)]
    /\ UNCHANGED <<orchVars, searchVars, tree, policy, scan>>

GetAllInit ==
    /\ found = {}
    /\ runs = [i \in Runs |-> IdleRun]
    /\ output = <<>>
    /\ gitCalls = {}
    /\ host = Activated
    /\ view = IdleView
    /\ SearchIdle
    /\ tree \in Trees
    /\ policy \in {[maxDepth |-> <<d, d>>, excludeFolders |-> e] :
                      d \in 0 .. MaxDepthSetting, e \in ExcludeSets}
    /\ scan = IdleScan
    /\ \E f \in FolderLists, n \in BOOLEAN :
          ws = [IdleWs EXCEPT !.pc = "loop", !.folders = f, !.scanNested = n]

GetAllNext == GetAllNoFolders \/ GetAllFolder \/ GetAllReturn

\* ------------------------------------------- getAllGitRepos: the defaults
\* The second arguments of the three config.get calls.
DefaultScanNested == TRUE
DefaultMaxDepth == 2
DefaultExcludeFolders == {"node_modules", ".git", "dist", "build", "out"}

\* A configuration that supplies no value of multiRepoGit.
NoSettings == [k \in {} |-> TRUE]

\* config.get(key, defaultValue)
configGet(settings, key, defaultValue) ==
    IF key \in DOMAIN settings THEN settings[key] ELSE defaultValue

\* A workspace folder with build, cache and dependency directories, each
\* with a directory below it, and a source directory.
DefaultPaths ==
    {<<>>, <<".next">>, <<".next", "app">>, <<".cache">>,
     <<".cache", "tool">>, <<"node_modules">>, <<"node_modules", "pkg">>,
     <<"web">>}

\* getAllGitRepos with no setting supplied, at its loop over the folders.
GetAllDefaultsInit ==
    /\ found = {}
    /\ runs = [i \in Runs |-> IdleRun]
    /\ output = <<>>
    /\ gitCalls = {}
    /\ host = Activated
    /\ view = IdleView
    /\ SearchIdle
    /\ tree \in {t \in [DefaultPaths -> {"dir", "repo"}] : t[<<>>] = "dir"}
    /\ policy = [maxDepth |->
                    <<configGet(NoSettings, "maxDepth", DefaultMaxDepth),
                      configGet(NoSettings, "maxDepth", DefaultMaxDepth)>>,
                 excludeFolders |->
                    configGet(NoSettings, "excludeFolders",
                              DefaultExcludeFolders)]
    /\ scan = IdleScan
    /\ \E f \in {<<>>, << <<>> >>} :
          ws = [IdleWs EXCEPT
                  !.pc = "loop",
                  !.folders = f,
                  !.scanNested = configGet(NoSettings, "scanNested",
                                           DefaultScanNested)]

SpecGetAllDefaults == GetAllDefaultsInit /\ [][GetAllNext]_vars

SpecGetAll == GetAllInit /\ [][GetAllNext]_vars

\* ------------------------------------------------- orchestrator properties

\* The repositories on which a git command of invocation i threw.
Threw(i) == {c.repo : c \in {d \in gitCalls : d.by = i /\ d.st = "failed"}}

\* The repositories on which invocation i started a git command.
Touched(i) == {c.repo : c \in {d \in gitCalls : d.by = i}}

\* The repositories of invocation i with an Error line in the channel.
ErrorLinesOf(i) ==
    {output[n].repo : n \in {m \in 1 .. Len(output) :
                                output[m].by = i /\ output[m].t = "error"}}

\* The header lines of invocation i in the channel, in order.
HeadersOf(i) ==
    SelectSeq(output, LAMBDA l : l.by = i /\ l.t = "header")

\* C1: a throwing action never ends the batch. An invocation never ends by
\* an exception; when its loop is over without cancellation, one header per
\* repository of the list was written, in list order, and the Error lines
\* are those of exactly the repositories whose action threw.
FailureIsolation ==
    \A i \in Runs :
        /\ runs[i].pc # "thrown"
        /\ ErrorLinesOf(i) = Threw(i)
        /\ (runs[i].pc = "done" /\ runs[i].cleared /\ ~runs[i].cancel) =>
              /\ runs[i].visited = runs[i].list
              /\ Len(HeadersOf(i)) = Len(runs[i].list)
              /\ \A n \in 1 .. Len(runs[i].list) :
                    HeadersOf(i)[n].repo = runs[i].list[n]

\* A finished batch of at least two repositories whose first action threw
\* and whose last did not.
FailureIsolationWitness ==
    \E i \in Runs :
        /\ runs[i].pc = "done" /\ ~runs[i].cancel
        /\ Len(runs[i].list) >= 2
        /\ runs[i].list[1] \in Threw(i)
        /\ runs[i].list[Len(runs[i].list)] \notin Threw(i)
        /\ runs[i].list[Len(runs[i].list)] \in Touched(i)

\* C2: once cancellation is requested with m headers written, no further
\* header is written and no git command is started on a repository beyond
\* the m-th; the batch ends with exactly m entries.
CancellationStops ==
    \A i \in Runs :
        runs[i].cancel =>
            /\ Len(runs[i].visited) = runs[i].cancelAt
            /\ Len(HeadersOf(i)) = runs[i].cancelAt
            /\ Touched(i) \subseteq
                  {runs[i].list[n] : n \in 1 .. runs[i].cancelAt}

\* A batch cancelled after m repositories, 1 <= m < N, that has ended.
CancellationStopsWitness ==
    \E i \in Runs :
        /\ runs[i].pc = "done" /\ runs[i].cancel
        /\ runs[i].cancelAt >= 1
        /\ runs[i].cancelAt < Len(runs[i].list)
        /\ Len(runs[i].visited) = runs[i].cancelAt

\* C3 (as claimed): at most one repository action is in flight at any time.
OneActionInFlight ==
    Cardinality({i \in Runs : runs[i].pc = "action"}) <= 1

\* C7: in runResetWorkspace a git command of a repository is started only
\* when the command before it returned for that repository (so a failed
\* discard leaves fetch and pull unattempted, a failed fetch leaves pull
\* unattempted), the failure is logged for that repository, and the
\* repositories after it are still processed.
ResetShortCircuits ==
    \A i \in Runs :
        runs[i].op = "Reset" =>
            /\ \A c \in gitCalls :
                  (c.by = i /\ c.k > 1) =>
                      [c EXCEPT !.k = c.k - 1,
                                !.cmd = Steps("Reset", "none")[c.k - 1],
                                !.st = "ok"] \in gitCalls
            /\ Threw(i) = ErrorLinesOf(i)
            /\ (runs[i].pc = "done" /\ runs[i].cleared /\ ~runs[i].cancel) =>
                  Touched(i) = {runs[i].list[n] : n \in 1 .. Len(runs[i].list)}

\* A reset over two repositories whose first discard failed and whose
\* second repository went through fetch and pull.
ResetShortCircuitsWitness ==
    \E i \in Runs :
        /\ runs[i].op = "Reset" /\ runs[i].pc = "done"
        /\ Len(runs[i].list) >= 2
        /\ \E c \in gitCalls :
              /\ c.by = i /\ c.repo = runs[i].list[1]
              /\ c.cmd = "resetHard" /\ c.st = "failed"
        /\ \E c \in gitCalls :
              /\ c.by = i /\ c.repo = runs[i].list[2]
              /\ c.cmd = "pull" /\ c.st = "ok"

\* C8 (as claimed): a hard reset or clean reaches a repository only in an
\* invocation whose confirmation dialog was answered positively, and a
\* declined confirmation leaves repositories and channel alone.
DestructiveNeedsConfirmation ==
    /\ \A c \in gitCalls :
          c.cmd \in Destructive => runs[c.by].confirmed
    /\ \A i \in Runs :
          (NeedsConfirm(runs[i].op) /\ runs[i].pc = "done"
              /\ ~runs[i].confirmed) =>
                 (Touched(i) = {} /\ ~runs[i].cleared)

\* ------------------------------------------------------- search properties

\* The messages call c posted to the webview, in order.
MsgsOf(c) == SelectSeq(webview, LAMBDA m : m.by = c)

\* The types of the messages call c posted, in order.
TypesOf(c) == [n \in 1 .. Len(MsgsOf(c)) |-> MsgsOf(c)[n].type]

\* What a branch search of `q` reports for a repository of profile p.
BranchMatchesOf(p, q) == RemoteMatches(LocalMatches(p, q), p, q)

\* C4: a results message is posted only when the query of every discovered
\* repository has settled, and it carries the complete results array.
JoinBarrier ==
    \A n \in 1 .. Len(webview) :
        webview[n].type = "results" =>
            LET c == webview[n].by
            IN  /\ calls[c].repos = found
                /\ \A r \in found : calls[c].task[r].st \in {"done", "failed"}
                /\ webview[n].results = calls[c].results

\* A results message over at least two repositories, one query of which
\* failed and one of which succeeded.
JoinBarrierWitness ==
    \E n \in 1 .. Len(webview) :
        /\ webview[n].type = "results"
        /\ Cardinality(calls[webview[n].by].repos) >= 2
        /\ \E r \in found : calls[webview[n].by].task[r].st = "failed"
        /\ \E r \in found : calls[webview[n].by].task[r].st = "done"

FanOutIsolation ==
    /\ \A n \in 1 .. Len(webview) : webview[n].type \in {"started", "results"}
    /\ \A n \in 1 .. Len(webview) :
          webview[n].type = "results" =>
              LET c == webview[n].by
                  res == webview[n].results
                  expected(r) ==
                      IF calls[c].kind = "branch"
                      THEN BranchMatchesOf(branchData[r], calls[c].query)
                      ELSE [j \in 1 .. calls[c].task[r].total |->
                               [label |-> <<"c">>, value |-> <<"c">>]]
              IN  /\ {res[k].path : k \in 1 .. Len(res)} =
                        {r \in found : /\ calls[c].task[r].st = "done"
                                       /\ Len(expected(r)) > 0}
                  /\ Len(res) = Cardinality({res[k].path : k \in 1 .. Len(res)})
                  /\ \A k \in 1 .. Len(res) :
                        res[k] = Entry(c, res[k].path, expected(res[k].path))

\* The branch search for "release" over A (has release/1.0), B (no match)
\* and C whose query errors: the payload is A's entry alone, with one match.
FanOutIsolationWitness ==
    \E n \in 1 .. Len(webview) :
        /\ webview[n].type = "results"
        /\ calls[webview[n].by].kind = "branch"
        /\ calls[webview[n].by].query = <<"r", "e", "l", "e", "a", "s", "e">>
        /\ calls[webview[n].by].task[1].st = "done"
        /\ calls[webview[n].by].task[2].st = "done"
        /\ calls[webview[n].by].task[3].st = "failed"
        /\ Len(webview[n].results) = 1
        /\ webview[n].results[1].path = 1
        /\ Len(webview[n].results[1].matches) = 1
        /\ webview[n].results[1].matches[1].value = B_release

\* ---------------------------------------------------- discovery properties

\* p lies strictly inside q.
StrictlyInside(p, q) == Len(q) < Len(p) /\ SubSeq(p, 1, Len(q)) = q

\* C9: no scan ever holds or returns a path strictly inside another path it
\* holds or returns, and no directory below a recorded repository is ever
\* popped.
NoNestedRepos ==
    /\ \A p \in scan.repos, q \in scan.repos : ~StrictlyInside(p, q)
    /\ \A n \in {1, 2} :
          \A p \in scan.results[n], q \in scan.results[n] : ~StrictlyInside(p, q)
    /\ \A n \in 1 .. Len(scan.popped) :
          \A q \in scan.repos : ~StrictlyInside(scan.popped[n], q)

\* A finished scan that returned a repository holding another repository
\* which the depth bound and the exclusions would have let it reach.
NoNestedReposWitness ==
    /\ scan.no = 2
    /\ \E q \in scan.results[1], p \in Paths :
          /\ StrictlyInside(p, q)
          /\ tree[p] = "repo"
          /\ Len(p) <= policy.maxDepth[1]
          /\ p[Len(p)] \notin policy.excludeFolders

\* C10: with maxDepth = d no repository more than d edges below the root is
\* recorded or returned (d = 0: the root at most), and of two scans of the
\* same tree the one with the smaller depth returns a subset of the other.
DepthBoundMonotone ==
    /\ scan.no \in {1, 2} =>
          \A p \in scan.repos : Len(p) <= policy.maxDepth[scan.no]
    /\ \A n \in {1, 2} :
          (scan.no > n) =>
              /\ \A p \in scan.results[n] : Len(p) <= policy.maxDepth[n]
              /\ policy.maxDepth[n] = 0 => scan.results[n] \subseteq {<<>>}
    /\ scan.no = 3 =>
          /\ policy.maxDepth[1] <= policy.maxDepth[2] =>
                scan.results[1] \subseteq scan.results[2]
          /\ policy.maxDepth[2] <= policy.maxDepth[1] =>
                scan.results[2] \subseteq scan.results[1]

\* Two finished scans of a tree with a repository at depth 1 and one at
\* depth 2: the scan with depth 1 returned the first only, the scan with
\* depth 2 both.
DepthBoundMonotoneWitness ==
    /\ scan.no = 3
    /\ policy.maxDepth = <<1, 2>>
    /\ scan.results[1] = {<<"b">>}
    /\ scan.results[2] = {<<"b">>, <<"a", "c">>}

\* C11: discovery is idempotent. Two scans of the same tree under the same
\* policy return the same set of repositories, in whatever order readdir
\* lists the entries each time; each of them is the set the function
\* discoverGitRepos (the one getAllGitRepos calls) returns.
DiscoveryIdempotent ==
    /\ (scan.no = 3 /\ policy.maxDepth[1] = policy.maxDepth[2])
          => scan.results[1] = scan.results[2]
    /\ \A n \in {1, 2} :
          scan.no > n =>
             scan.results[n] = discoverGitRepos(<<>>, policy.maxDepth[n])

\* Two finished scans at the same depth that listed directory a and found
\* the same two repositories.
DiscoveryIdempotentWitness ==
    /\ scan.no = 3
    /\ policy.maxDepth[1] = policy.maxDepth[2]
    /\ Cardinality(scan.results[1]) >= 2
    /\ scan.results[1] = scan.results[2]
    /\ tree[<<"a">>] = "dir"

\* The repositories a scan of depth d can reach: every directory above
\* them is a listable directory without a .git entry, no name on the way
\* is excluded, and they lie at most d levels below the root.
Reachable(d) ==
    {p \in Paths :
        /\ tree[p] = "repo"
        /\ Len(p) <= d
        /\ \A k \in 0 .. Len(p) - 1 : tree[SubSeq(p, 1, k)] = "dir"
        /\ \A k \in 1 .. Len(p) : p[k] \notin policy.excludeFolders}

\* C12: a directory that cannot be listed is skipped without failing the
\* scan: the scan still returns every repository that is reachable through
\* listable directories within the depth bound.
UnlistableSkipped ==
    \A n \in {1, 2} :
        scan.no > n => Reachable(policy.maxDepth[n]) \subseteq scan.results[n]

\* A finished scan that met the unlistable directory a before its sibling
\* b and still returned the repository b.
UnlistableSkippedWitness ==
    /\ scan.no = 3
    /\ policy.maxDepth[2] >= 1
    /\ tree[<<"a">>] = "locked"
    /\ tree[<<"b">>] = "repo"
    /\ scan.popped = <<<<>>, <<"a">>, <<"b">>>>
    /\ <<"b">> \in scan.results[2]

\* C13: no entry whose name is in excludeFolders and no non-directory entry
\* is ever pushed on the worklist, so no returned repository has an
\* excluded name among its path components below the scanned root.
ExcludedNeverPushed ==
    LET Clean(p) == /\ tree[p] # "file"
                    /\ \A k \in 1 .. Len(p) : p[k] \notin policy.excludeFolders
    IN  /\ \A n \in 1 .. Len(scan.stack) : Clean(scan.stack[n].dir)
        /\ \A n \in 1 .. Len(scan.popped) : Clean(scan.popped[n])
        /\ \A p \in scan.repos \cup scan.results[1] \cup scan.results[2] :
              Clean(p)

\* A finished scan that listed a, where the excluded a/nm holds a .git
\* entry and b is a file, deep enough to reach a/nm, and returned neither.
ExcludedNeverPushedWitness ==
    /\ scan.no = 3
    /\ policy.maxDepth[2] = 2
    /\ policy.excludeFolders = {"nm"}
    /\ tree[<<"a">>] = "dir"
    /\ tree[<<"a", "nm">>] = "repo"
    /\ tree[<<"a", "c">>] = "repo"
    /\ tree[<<"b">>] = "file"
    /\ scan.results[2] = {<<"a", "c">>}
    /\ <<"a">> \in {scan.popped[n] : n \in 1 .. Len(scan.popped)}

\* C14: the list getAllGitRepos returns never holds the same path twice,
\* also when several workspace roots lead to the same repository; it holds
\* every path that was collected.
NoDuplicateRepos ==
    ws.pc = "done" =>
        /\ \A i, j \in 1 .. Len(ws.result) :
              ws.result[i] = ws.result[j] => i = j
        /\ Range(ws.result) = Range(ws.allRepos)

\* A finished nested scan of the roots <<>> and a, both of which found
\* the repository a/c.
NoDuplicateReposWitness ==
    /\ ws.pc = "done"
    /\ ws.scanNested
    /\ ws.folders = << <<>>, <<"a">> >>
    /\ ws.allRepos = << <<"a", "c">>, <<"a", "c">> >>
    /\ ws.result = << <<"a", "c">> >>

\* C15: with scanNested false, getAllGitRepos makes one check per workspace
\* root and returns a duplicate-free subset of the roots: a root is
\* returned exactly when it carries the repository marker (a .git entry),
\* and no subdirectory of a root is returned.
MarkerCheckPerRoot ==
    (ws.pc = "done" /\ ~ws.scanNested) =>
        /\ ws.checks = Len(ws.folders)
        /\ Len(ws.result) <= Len(ws.folders)
        /\ \A i, j \in 1 .. Len(ws.result) :
              ws.result[i] = ws.result[j] => i = j
        /\ Range(ws.result) = {f \in Range(ws.folders) : tree[f] = "repo"}

\* ---------------------------------------------------- search: the matches

\* C16: within one repository a remote branch whose name, a leading
\* origin/ or upstream/ stripped, is the name of a local match is not
\* reported: every local match is the only match of its name, and with a
\* local main and a remote origin/main the query main yields the local
\* main and nothing else.
RemoteDuplicateSuppressed ==
    \A c \in Calls, r \in SRepos :
        (calls[c].kind = "branch" /\ calls[c].task[r].st = "done") =>
            LET q == calls[c].query
                ms == calls[c].task[r].matches
                localHits == {b \in Range(LocalBranches(branchData[r])) :
                                 Includes(b, q)}
                remoteHits == {b \in Range(RemoteBranches(branchData[r])) :
                                  Includes(b, q)}
            IN  /\ \A b \in remoteHits :
                      StripRemote(b) \in localHits =>
                          \A n \in 1 .. Len(ms) : ms[n].label # b
                /\ \A b \in localHits :
                      Cardinality({n \in 1 .. Len(ms) : ms[n].value = b}) = 1
                /\ (q = B_main /\ localHits = {B_main}
                       /\ remoteHits = {R_origin_main})
                      => ms = <<[label |-> B_main, value |-> B_main]>>

\* The query main has settled on repository 1, which has the local branch
\* main and the remote branch origin/main: one match, the local one.
RemoteDuplicateSuppressedWitness ==
    /\ calls["s1"].kind = "branch"
    /\ calls["s1"].query = B_main
    /\ calls["s1"].task[1].st = "done"
    /\ B_main \in Range(LocalBranches(branchData[1]))
    /\ R_origin_main \in Range(RemoteBranches(branchData[1]))
    /\ calls["s1"].task[1].matches = <<[label |-> B_main, value |-> B_main]>>

\* ------------------------------------------------ branch-name normalization

\* A label of the form origin/<name> or upstream/<name>.
RemoteQualified(b) ==
    \/ StartsWith(b, ORIGIN \o <<Slash>>)
    \/ StartsWith(b, UPSTREAM \o <<Slash>>)

\* A label of the form remotes/<remote>/<name>.
TrackingQualified(b) ==
    /\ StartsWith(b, REMOTES \o <<Slash>>)
    /\ Cardinality({n \in 1 .. Len(b) : b[n] = Slash}) >= 2

\* C17 as stated: normalizing a normalized name returns it unchanged, for
\* every raw label, and a label without a recognized prefix is untouched.
NormalizeIdempotent ==
    norm.pc = "twice" =>
        /\ norm.search2 = norm.search
        /\ norm.picker2 = norm.picker
        /\ ~RemoteQualified(norm.label) => norm.search = norm.label
        /\ ~TrackingQualified(norm.label) => norm.picker = norm.label

\* C17, amended: one recognized prefix is stripped per normalization, so
\* normalizing again returns the name unchanged whenever the normalized
\* name does not itself begin with a recognized prefix; a label without a
\* recognized prefix is untouched, and a label with one loses exactly it.
NormalizeStripsOnePrefix ==
    norm.pc = "twice" =>
        /\ ~RemoteQualified(norm.search) => norm.search2 = norm.search
        /\ ~TrackingQualified(norm.picker) => norm.picker2 = norm.picker
        /\ ~RemoteQualified(norm.label) => norm.search = norm.label
        /\ ~TrackingQualified(norm.label) => norm.picker = norm.label
        /\ RemoteQualified(norm.label) =>
              \/ norm.label = ORIGIN \o <<Slash>> \o norm.search
              \/ norm.label = UPSTREAM \o <<Slash>> \o norm.search
        /\ TrackingQualified(norm.label) =>
              \E seg \in Segments :
                  norm.label = REMOTES \o <<Slash>> \o seg \o <<Slash>> \o norm.picker

\* origin/feature/x normalized twice by the search: feature/x both times;
\* the picker leaves it untouched.
NormalizeStripsOnePrefixWitness ==
    /\ norm.pc = "twice"
    /\ norm.label = ORIGIN \o <<Slash>> \o
                       <<"f", "e", "a", "t", "u", "r", "e">> \o <<Slash, "x">>
    /\ norm.search = <<"f", "e", "a", "t", "u", "r", "e">> \o <<Slash, "x">>
    /\ norm.search2 = norm.search
    /\ norm.picker = norm.label

\* C18: the search and the picker / checkout-all normalize alike: for every
\* raw label both yield the same logical name, and both map
\* origin/feature/x and remotes/origin/feature/x to feature/x.
SameNormalization ==
    norm.pc \in {"once", "twice"} =>
        /\ norm.search = norm.picker
        /\ norm.label \in
              {ORIGIN \o <<Slash>> \o
                   <<"f", "e", "a", "t", "u", "r", "e">> \o <<Slash, "x">>,
               REMOTES \o <<Slash>> \o ORIGIN \o <<Slash>> \o
                   <<"f", "e", "a", "t", "u", "r", "e">> \o <<Slash, "x">>}
              => norm.search = <<"f", "e", "a", "t", "u", "r", "e">> \o <<Slash, "x">>

\* ------------------------------------------------------ commit query plan

FilterFlags ==
    {<<"--grep", "title">>, <<"--author", "author">>,
     <<"--since", "dateFrom">>, <<"--until", "dateTo">>}

\* C20: the plan holds a message filter iff the title is non-empty, an
\* author filter iff an author is given, a since filter and an until
\* filter likewise, each whatever the other fields are, each once and
\* with exactly the value supplied.
PlanComposition ==
    \A c \in Calls, r \in SRepos :
        (calls[c].kind = "commit" /\ calls[c].task[r].plan # <<>>) =>
            LET plan == calls[c].task[r].plan
                f == calls[c].filters
            IN  \A ff \in FilterFlags :
                    LET at == {n \in 1 .. Len(plan) : plan[n][1] = ff[1]}
                    IN  IF f[ff[2]] = "" THEN at = {}
                        ELSE /\ Cardinality(at) = 1
                             /\ \A n \in at : plan[n][2] = f[ff[2]]

\* A commit search by author and end date only: the plan of repository 1
\* holds these two filters and neither a message nor a since filter.
PlanCompositionWitness ==
    /\ calls["s1"].kind = "commit"
    /\ calls["s1"].filters =
          [NoFilters EXCEPT !.author = "ann", !.dateTo = "2024-12-31"]
    /\ calls["s1"].task[1].plan =
          <<<<"--all", "">>, <<"--author", "ann">>, <<"--until", "2024-12-31">>>>

\* ------------------------------------------------- search: frame and payload

\* C21: a branch search with an empty query and a commit search with an
\* entirely empty filter set are local no-ops: the call returns at once,
\* without a started message, without running the discovery, without
\* querying a repository and without a results message.
EmptySearchNoOp ==
    \A c \in Calls :
        LET call == calls[c]
            empty == \/ call.kind = "branch" /\ call.query = <<>>
                     \/ call.kind = "commit" /\ call.filters = NoFilters
        IN  empty =>
               /\ call.pc = "done"
               /\ call.repos = {}
               /\ \A r \in SRepos : call.task[r] = IdleTask
               /\ call.results = <<>>
               /\ \A n \in 1 .. Len(webview) : webview[n].by # c

\* A commit search without any filter has returned in a workspace with
\* repositories: nothing was posted and nothing was queried.
EmptySearchNoOpWitness ==
    /\ found = SRepos
    /\ calls["s1"].kind = "commit"
    /\ calls["s1"].filters = NoFilters
    /\ calls["s1"].pc = "done"
    /\ webview = <<>>

\* C22: a repository without a match never appears in a results payload:
\* every entry of every results message, of a branch search or of a commit
\* search, has a non-empty list of matches.
NoEmptyEntries ==
    \A n \in 1 .. Len(webview) :
        webview[n].type = "results" =>
            \A k \in 1 .. Len(webview[n].results) :
                Len(webview[n].results[k].matches) > 0

\* The results of a search in which the query of repository 2 succeeded
\* without a match while repository 1 had one: the payload has an entry
\* for repository 1 and none for repository 2.
NoEmptyEntriesWitness ==
    \E n \in 1 .. Len(webview) :
        /\ webview[n].type = "results"
        /\ calls[webview[n].by].task[2].st = "done"
        /\ calls[webview[n].by].task[2].matches = <<>>
        /\ \E k \in 1 .. Len(webview[n].results) :
              webview[n].results[k].path = 1
        /\ \A k \in 1 .. Len(webview[n].results) :
              webview[n].results[k].path # 2

\* ------------------------------------------------ orchestrator: the log

\* The lines a step appends to the channel.
Appended ==
    IF Len(output') >= Len(output) /\ SubSeq(output', 1, Len(output)) = output
    THEN SubSeq(output', Len(output) + 1, Len(output'))
    ELSE output'

CancellationCooperative ==
    \A i \in Runs :
        (runs[i].pc = "done" /\ runs[i].cancel /\ runs[i].cancelStep >= 1) =>
            LET r == runs[i].visited[runs[i].cancelAt]
                mine == {c \in gitCalls : c.by = i /\ c.repo = r}
                n == Len(Steps(runs[i].op, runs[i].args))
            IN  /\ Len(runs[i].visited) = runs[i].cancelAt
                /\ \/ \E c \in mine : c.st = "failed"
                   \/ \A k \in 1 .. n : \E c \in mine : c.k = k /\ c.st = "ok"
                /\ \A c \in mine :
                      c.st = "started" =>
                         \E d \in mine : d.k = c.k /\ d.st \in {"ok", "failed"}

\* runResetWorkspace over two repositories was cancelled while the first
\* git command of the first repository was in flight: all four commands of
\* that repository returned and the second repository was not started.
CancellationCooperativeWitness ==
    /\ runs["r1"].pc = "done"
    /\ runs["r1"].op = "Reset"
    /\ runs["r1"].cancel
    /\ runs["r1"].cancelStep = 1
    /\ Len(runs["r1"].list) = 2
    /\ runs["r1"].visited = <<runs["r1"].list[1]>>
    /\ \A k \in 1 .. 4 :
          \E c \in gitCalls : c.repo = runs["r1"].list[1] /\ c.k = k /\ c.st = "ok"

OutputsNotShared ==
    (\A i \in Runs : runs[i].pc \in {"check", "action"}) =>
        /\ \A i \in Runs : Len(HeadersOf(i)) = Len(runs[i].visited)
        /\ \A n, m, k \in 1 .. Len(output) :
              (n < m /\ m < k /\ output[n].by = output[k].by)
                 => output[m].by = output[n].by

\* ------------------------------------------------------ branch enumeration

\* C27: the branch enumeration of the filter picker visits every
\* repository and shows the names of the local and remote branches of the
\* repositories whose listing succeeded, remotes/<remote>/ stripped, as
\* a list in strictly ascending order (sorted, without duplicates); a
\* repository whose listing fails adds nothing and stops nothing.
PickerListsUnion ==
    picker.pc \in {"shown", "done"} =>
        /\ picker.repos = found
        /\ \A r \in found : picker.task[r] \in {"done", "failed"}
        /\ Range(picker.sortedBranches) =
              UNION {NamesOf(branchData[r]) :
                       r \in {q \in found : picker.task[q] = "done"}}
        /\ \A n \in 1 .. Len(picker.sortedBranches) - 1 :
              Less(picker.sortedBranches[n], picker.sortedBranches[n + 1])

\* The picker over three repositories of which the second failed to list
\* its branches: dev (remote only), main (local and remote) and
\* release/1.0 are shown, in this order.
PickerListsUnionWitness ==
    /\ picker.pc = "shown"
    /\ found = {1, 2, 3}
    /\ picker.task[1] = "done"
    /\ picker.task[2] = "failed"
    /\ picker.task[3] = "done"
    /\ picker.sortedBranches = <<B_dev, B_main, B_release>>

\* ------------------------------------------------------ default scan policy

\* C28: with no setting supplied, discovery runs with scanNested = true,
\* maxDepth = 2 and excludeFolders = {node_modules, .git, dist, build, out,
\* .next, .cache}; no directory named .next or .cache is descended into,
\* so no repository below one is returned.
DefaultPolicyExcludesCaches ==
    /\ ws.scanNested
    /\ policy.maxDepth[1] = 2
    /\ policy.excludeFolders =
          {"node_modules", ".git", "dist", "build", "out", ".next", ".cache"}
    /\ ws.pc = "done" =>
          \A n \in 1 .. Len(ws.result) :
              \A k \in 1 .. Len(ws.result[n]) - 1 :
                  ws.result[n][k] \notin {".next", ".cache"}

\* -------------------------------------------------------- stale searches

\* The messages of the given type that call c has posted, in order.
PostedBy(c, type) ==
    SelectSeq(webview, LAMBDA m : m.by = c /\ m.type = type)

\* C29: a search in flight is not cancelled by a later one. While two
\* searches are in flight each keeps its own query and its own query per
\* repository, running or settled; a call that has ended has posted one results message, which
\* carries the entries of its own query and of no other, wherever that
\* message stands relative to the other call's.
StaleSearchesComplete ==
    \A c \in Calls :
        /\ calls[c].pc # "idle" => calls[c].query = QueryOf(c)
        /\ calls[c].pc \in {"discover", "fanout"} =>
              /\ Len(PostedBy(c, "started")) = 1
              /\ PostedBy(c, "results") = <<>>
              /\ calls[c].pc = "fanout" =>
                    /\ calls[c].repos = found
                    /\ \A r \in found :
                          calls[c].task[r].st \in
                              {"branchLocal", "branchRemote", "done", "failed"}
        /\ calls[c].pc = "done" =>
              /\ Len(PostedBy(c, "results")) = 1
              /\ LET posted == PostedBy(c, "results")[1].results
                 IN  /\ {posted[n].path : n \in 1 .. Len(posted)} =
                           {r \in found :
                               /\ calls[c].task[r].st = "done"
                               /\ calls[c].task[r].matches # <<>>}
                     /\ \A n \in 1 .. Len(posted) :
                           LET p == branchData[posted[n].path]
                           IN  posted[n].matches =
                                 RemoteMatches(LocalMatches(p, QueryOf(c)),
                                               p, QueryOf(c))

\* The second search was started while the first was in flight, and the
\* results of the first were posted after those of the second; each
\* message carries what its own query matched.
StaleSearchesCompleteWitness ==
    /\ Len(webview) = 4
    /\ <<webview[1].by, webview[1].type>> = <<"s1", "started">>
    /\ <<webview[2].by, webview[2].type>> = <<"s2", "started">>
    /\ <<webview[3].by, webview[3].type>> = <<"s2", "results">>
    /\ <<webview[4].by, webview[4].type>> = <<"s1", "results">>
    /\ webview[3].results # <<>>
    /\ webview[4].results # <<>>
    /\ \A n \in 1 .. Len(webview[4].results) :
          \A k \in 1 .. Len(webview[3].results) :
              webview[4].results[n].matches # webview[3].results[k].matches

\* ----------------------------------------------------------- registration

\* C30: once activate() has run, the commands runGitAll, runCustomGitAll,
\* statusAll, fetchAll and pullAll (prefix multi-repo-git-commands.) are
\* registered, and they are still registered in every later state,
\* whatever commands have run since; no command runs before activation.
CommandsRegistered ==
    /\ host.activated =>
          {"runGitAll", "runCustomGitAll", "statusAll", "fetchAll", "pullAll"}
              \subseteq host.commands
    /\ ~host.activated => \A i \in Runs : runs[i].pc = "idle"

\* After activation statusAll has run to its end over two repositories,
\* and the five commands are registered.
CommandsRegisteredWitness ==
    /\ host.activated
    /\ runs["r1"].op = "Status"
    /\ runs["r1"].pc = "done"
    /\ Len(runs["r1"].list) = 2
    /\ "statusAll" \in host.commands
    /\ "pullAll" \in host.commands

\* ------------------------------------------------------- processing order

\* The sequence s starts the sequence t.
IsPrefix(s, t) == Len(s) <= Len(t) /\ SubSeq(t, 1, Len(s)) = s

\* C31: when the orchestrator discovers the repositories itself it
\* processes all of them in ascending order of display name; when a list
\* is passed, the list is never changed and the repositories are processed
\* in its order.
ProcessingOrder ==
    /\ [](\A i \in Runs :
            runs[i].pc \in {"check", "action", "done"} =>
                /\ IsPrefix(runs[i].visited, runs[i].list)
                /\ HeadersOf(i) # <<>> =>
                      HeadersOf(i)[Len(HeadersOf(i))].repo =
                          runs[i].visited[Len(runs[i].visited)]
                /\ (~runs[i].explicit /\ runs[i].cleared) =>
                      /\ Range(runs[i].list) = found
                      /\ \A n \in 1 .. Len(runs[i].list) - 1 :
                            Less(RepoName(runs[i].list[n]),
                                 RepoName(runs[i].list[n + 1])))
    /\ [][\A i \in Runs :
            (runs[i].explicit /\ runs[i].pc # "idle") =>
                runs'[i].list = runs[i].list]_vars

\* A command over the discovered repositories has processed api before
\* lib.
ProcessingOrderWitness ==
    /\ ~runs["r1"].explicit
    /\ runs["r1"].pc = "done"
    /\ found = {1, 2}
    /\ runs["r1"].visited = <<1, 2>>
    /\ Len(HeadersOf("r1")) = 2

\* ----------------------------------------------------- match containment

\* C32: every match of a branch search that is reported has a normalized
\* name (its value) that contains the query as a substring, be it a local
\* or a remote match.
MatchesContainQuery ==
    \A n \in 1 .. Len(webview) :
        (webview[n].type = "results" /\ calls[webview[n].by].kind = "branch") =>
            \A e \in 1 .. Len(webview[n].results) :
                \A k \in 1 .. Len(webview[n].results[e].matches) :
                    Includes(webview[n].results[e].matches[k].value,
                             calls[webview[n].by].query)

\* C32 as the code has it: every match of a branch search that is reported
\* has a label (the name as git lists it) that contains the query as a
\* substring; its normalized name is the label, or the label without a
\* leading origin/ or upstream/, and then it need not contain the query.
LabelsContainQuery ==
    \A n \in 1 .. Len(webview) :
        (webview[n].type = "results" /\ calls[webview[n].by].kind = "branch") =>
            \A e \in 1 .. Len(webview[n].results) :
                \A k \in 1 .. Len(webview[n].results[e].matches) :
                    LET m == webview[n].results[e].matches[k]
                    IN  /\ Includes(m.label, calls[webview[n].by].query)
                        /\ \/ m.value = m.label
                           \/ m.label = ORIGIN \o <<Slash>> \o m.value
                           \/ m.label = UPSTREAM \o <<Slash>> \o m.value

\* The search for origin reports the remote branch origin/dev under the
\* normalized name dev.
LabelsContainQueryWitness ==
    \E n \in 1 .. Len(webview) :
        /\ webview[n].type = "results"
        /\ calls[webview[n].by].query = ORIGIN
        /\ \E e \in 1 .. Len(webview[n].results) :
              \E k \in 1 .. Len(webview[n].results[e].matches) :
                  /\ webview[n].results[e].matches[k].label = R_origin_dev
                  /\ webview[n].results[e].matches[k].value = B_dev

\* ------------------------------------------------------ order of a report

\* C33: the order of the entries of a results payload depends on the
\* repositories only, not on the order in which the queries complete: two
\* runs of the same search in which every query succeeded post the same
\* sequence of entries.
SameSearchSameSequence ==
    (/\ \A c \in Calls : calls[c].pc = "done"
     /\ \A c \in Calls, r \in found : calls[c].task[r].st = "done") =>
        PostedBy("s1", "results") # <<>> /\
        PostedBy("s1", "results")[1].results =
            PostedBy("s2", "results")[1].results

\* ------------------------------------------------- shape of a match list

\* C34: in a results payload of a branch search the normalized names of
\* the matches of one repository are pairwise distinct, every local match
\* stands before every remote match, and no repository path occurs twice.
DistinctLocalsFirst ==
    \A n \in 1 .. Len(webview) :
        (webview[n].type = "results" /\ calls[webview[n].by].kind = "branch") =>
            LET res == webview[n].results
            IN  /\ \A e, f \in 1 .. Len(res) :
                      e # f => res[e].path # res[f].path
                /\ \A e \in 1 .. Len(res) :
                      LET ms == res[e].matches
                          p == branchData[res[e].path]
                      IN  /\ \A j, k \in 1 .. Len(ms) :
                                j # k => ms[j].value # ms[k].value
                          /\ \A j, k \in 1 .. Len(ms) :
                                (/\ ms[j].label \in Range(RemoteBranches(p))
                                 /\ ms[k].label \in Range(LocalBranches(p)))
                                    => k < j

\* The search for main has reported two repositories; the third has its
\* local main first and the remote fork/main after it, upstream/main
\* being suppressed.
DistinctLocalsFirstWitness ==
    \E n \in 1 .. Len(webview) :
        /\ webview[n].type = "results"
        /\ Len(webview[n].results) = 2
        /\ \E e \in 1 .. 2 :
              /\ webview[n].results[e].path = 3
              /\ webview[n].results[e].matches =
                    <<[label |-> B_main, value |-> B_main],
                      [label |-> R_fork_main, value |-> R_fork_main]>>

\* ------------------------------------------------- nesting across roots

\* C35: across several workspace roots getAllGitRepos never returns a path
\* that lies strictly inside another returned path, also when a workspace
\* root lies inside a repository found from another root.
NoNestingAcrossRoots ==
    ws.pc = "done" =>
        \A i, j \in 1 .. Len(ws.result) :
            ~StrictlyInside(ws.result[i], ws.result[j])

\* C35 as the code has it: a returned path lies strictly inside another
\* returned path only when a workspace root lies strictly inside that
\* other path and the first is that root or was found from it; the paths
\* found from roots of which none lies inside a returned path are not
\* nested.
NestingOnlyBelowInnerRoot ==
    ws.pc = "done" =>
        \A i, j \in 1 .. Len(ws.result) :
            StrictlyInside(ws.result[i], ws.result[j]) =>
                \E n \in 1 .. Len(ws.folders) :
                    /\ StrictlyInside(ws.folders[n], ws.result[j])
                    /\ \/ ws.result[i] = ws.folders[n]
                       \/ StrictlyInside(ws.result[i], ws.folders[n])

\* The roots <<>> and a/c are scanned; a is a repository found from the
\* first, a/c/d one found from the second, inside a.
NestingOnlyBelowInnerRootWitness ==
    /\ ws.pc = "done"
    /\ ws.scanNested
    /\ ws.folders = << <<>>, <<"a", "c">> >>
    /\ ws.result = << <<"a">>, <<"a", "c", "d">> >>

\* ------------------------------------------------------------ termination

\* C36: discoverGitRepos terminates on every tree: the stack becomes empty
\* and both scans return; within a scan no directory is popped twice, and
\* nothing is ever on the stack or popped below the depth maxDepth, so the
\* entries of a directory at that depth are never pushed.
DiscoveryTerminates ==
    /\ <>(scan.no = 3 /\ scan.stack = <<>>)
    /\ [](scan.no \in {1, 2} =>
            /\ \A m, n \in 1 .. Len(scan.popped) :
                  scan.popped[m] = scan.popped[n] => m = n
            /\ \A n \in 1 .. Len(scan.stack) :
                  /\ scan.stack[n].depth <= policy.maxDepth[scan.no]
                  /\ \A m \in 1 .. Len(scan.popped) :
                        scan.stack[n].dir # scan.popped[m]
                  /\ \A m \in 1 .. Len(scan.stack) :
                        scan.stack[m].dir = scan.stack[n].dir => m = n)

\* The second scan has returned after popping the root, a, a/c and b of a
\* tree that goes one level deeper than maxDepth = 2 allows.
DiscoveryTerminatesWitness ==
    /\ scan.no = 3
    /\ scan.stack = <<>>
    /\ policy.maxDepth[2] = 2
    /\ tree[<<"a", "c">>] = "dir"
    /\ tree[<<"a", "c", "d">>] = "repo"
    /\ Len(scan.popped) >= 4
    /\ <<"a", "c">> \in Range(scan.popped)
    /\ <<"a", "c", "d">> \notin Range(scan.popped)

\* ---------------------------------------------------- reset, step by step

\* The git commands of invocation i on repository r.
CallsOn(i, r) == {c \in gitCalls : c.by = i /\ c.repo = r}

\* The steps of invocation i on repository r are over: every command that
\* was started has returned or thrown, and one has thrown or the last one
\* (the pull) has returned.
StepsOver(i, r) ==
    /\ \A c \in CallsOn(i, r) :
          c.st = "started" =>
              \E d \in CallsOn(i, r) : d.k = c.k /\ d.st \in {"ok", "failed"}
    /\ \/ \E c \in CallsOn(i, r) : c.st = "failed"
       \/ \E c \in CallsOn(i, r) : c.cmd = "pull" /\ c.st = "ok"

\* C37: in reset-workspace the steps of a repository are all over before a
\* step of the next repository starts, and a cancellation raised during a
\* step of a repository does not skip the steps that remain for it: they
\* run unless one fails, and only the repositories after it are left out.
ResetStepByStep ==
    \A i \in Runs :
        runs[i].op = "Reset" =>
            /\ \A c \in gitCalls : c.by = i => c.repo \in Range(runs[i].visited)
            /\ \A n \in 1 .. Len(runs[i].visited) - 1 :
                  StepsOver(i, runs[i].visited[n])
            /\ (runs[i].cancel /\ runs[i].cancelStep >= 1) =>
                  /\ Len(runs[i].visited) = runs[i].cancelAt
                  /\ runs[i].pc = "done" =>
                        StepsOver(i, runs[i].visited[runs[i].cancelAt])

\* A reset over two repositories was cancelled while the fetch of the
\* first was in flight: the pull of the first ran all the same and the
\* second repository was never started.
ResetStepByStepWitness ==
    /\ runs["r1"].op = "Reset"
    /\ runs["r1"].pc = "done"
    /\ runs["r1"].cancelStep = 3
    /\ Len(runs["r1"].list) = 2
    /\ Len(runs["r1"].visited) = 1
    /\ \E c \in CallsOn("r1", runs["r1"].list[1]) :
          c.cmd = "pull" /\ c.st = "ok"
    /\ CallsOn("r1", runs["r1"].list[2]) = {}

\* C38: the checkout of a search result targets exactly the normalized
\* name the search reported for the match. When it succeeds _checkoutBranch
\* posts exactly one branchUpdated, for that repository and that branch,
\* and only once the checkout is over; when it fails it posts none, the
\* last line it wrote is the error of that repository, and the handler ends
\* (nothing is thrown).
CheckoutOfSearchResult ==
    LET co == view.co
        posted == PostedBy("checkout", "branchUpdated")
    IN  /\ co.pc # "dead"
        /\ co.pc # "idle" => co.branchName = co.reported
        /\ co.pc \in {"branch", "checkout", "return"} => posted = <<>>
        /\ co.pc = "done" /\ ~co.failed =>
             posted = <<BranchUpdated("checkout", co.repo, co.reported)>>
        /\ co.pc = "done" /\ co.failed =>
             /\ posted = <<>>
             /\ output # <<>>
             /\ output[Len(output)] = ViewLine("error", co.repo, <<"Error">>)

\* The branchUpdated messages posted for repository r, in posting order.
UpdatesFor(r) ==
    SelectSeq(webview, LAMBDA m : m.type = "branchUpdated" /\ m.repo = r)

\* Neither _checkoutBranch nor a call of updateRepoState is in flight.
ViewQuiet ==
    /\ view.co.pc \in {"idle", "done", "dead"}
    /\ \A u \in Updates : view.up[u].pc \in {"idle", "done"}

\* C40: with the provider subscribed to the git extension and every read
\* of the current branch successful, once _checkoutBranch and the calls of
\* updateRepoState are over the last branchUpdated posted for a repository
\* carries the branch the repository is on, in whatever order they
\* completed.
LastUpdateIsCurrent ==
    \A r \in SRepos :
        ( /\ view.hooked
          /\ ViewQuiet
          /\ \A u \in Updates :
                view.up[u].pc = "done" => view.up[u].current # <<>>
          /\ UpdatesFor(r) # <<>> )
        => UpdatesFor(r)[Len(UpdatesFor(r))].branchName = view.head[r]

\* ------------------------------------------------------------ checkout-all

\* C39: checkout-all. When the branch picker is dismissed no git checkout
\* is started and nothing is written. When a name is picked, git checkout
\* of that name is started on the target repositories one after the other,
\* in the order of the list, each one over before the next starts; unless
\* the operator cancels, every target repository gets its checkout, also
\* one whose branch listing failed or that has no branch of that name. A
\* checkout that fails writes the Error line of its repository and the
\* loop goes on.
CheckoutAllEveryTarget ==
    \A i \in Runs :
        runs[i].op = "Checkout" =>
            /\ (runs[i].pc = "done" /\ runs[i].args = <<>>) =>
                  /\ Touched(i) = {}
                  /\ runs[i].visited = <<>>
                  /\ output = <<>>
            /\ runs[i].args # <<>> =>
                  /\ \A c \in gitCalls :
                        c.by = i => c.cmd = "checkout" /\ c.repo \in picker.repos
                  /\ Touched(i) = Range(runs[i].visited)
                  /\ \A n \in 1 .. Len(runs[i].visited) :
                        /\ n <= Len(runs[i].list)
                        /\ runs[i].visited[n] = runs[i].list[n]
                        /\ n < Len(runs[i].visited) =>
                              \E c \in CallsOn(i, runs[i].visited[n]) :
                                  c.st \in {"ok", "failed"}
                  /\ (runs[i].pc = "done" /\ ~runs[i].cancel) =>
                        /\ Range(runs[i].visited) = picker.repos
                        /\ \A r \in picker.repos :
                              /\ \E c \in CallsOn(i, r) : c.st \in {"ok", "failed"}
                              /\ runs[i].args \notin NamesOf(branchData[r]) =>
                                    r \in Threw(i)
                              /\ r \in Threw(i) <=>
                                    \E n \in 1 .. Len(output) :
                                        /\ output[n].t = "error"
                                        /\ output[n].repo = r
                                        /\ output[n].by = i

\* checkout-all over the repositories 2, 1 where the listing of repository
\* 2 failed and release/1.0, a branch of repository 1 only, was picked:
\* the checkout failed in repository 2 and succeeded in repository 1.
CheckoutAllEveryTargetWitness ==
    /\ runs["r1"].op = "Checkout"
    /\ runs["r1"].pc = "done"
    /\ runs["r1"].args = B_release
    /\ runs["r1"].visited = <<2, 1>>
    /\ picker.task[2] = "failed"
    /\ Threw("r1") = {2}
    /\ \E c \in CallsOn("r1", 1) : c.st = "ok"

====
